---- MODULE Spec2Model ----
(***************************************************************************)
(* A model of the AICA chat view (src/src/extension.ts): the message       *)
(* handler of AicaChatViewProvider.resolveWebviewView, the streaming model *)
(* client getOllamaChat, the suggestion loop                               *)
(* _parseAndHandleCodeSuggestions and the edit orchestrator                *)
(* previewCodeChange / applyCodeEdit with their approval panels.           *)
(*                                                                         *)
(* Every message the webview posts starts one invocation of the async      *)
(* handler.  An invocation runs until its next await of host I/O; a        *)
(* continuation that is ready (a settled promise) runs before any further  *)
(* host event, as microtasks do.  A text is a sequence of tokens, a file   *)
(* content a sequence of lines.                                            *)
(***************************************************************************)
EXTENDS Integers, Sequences, FiniteSets, TLC

VARIABLES
  chatHistory,   \* the module-level history list (line 6)
  files,         \* workspace file name -> content (the host's documents)
  apiUrl,        \* configuration aica.apiUrl
  workspaceOpen, \* vscode.workspace.workspaceFolders is defined
  keepHistory,   \* configuration aica.chatHistory
  h,             \* handler invocation -> its local state
  settled,       \* invocations in the order their chat call settled
  appended,      \* every entry pushed to the history so far, in order
  calc           \* one call of a function of the module: its name, arguments, result

vars == <<chatHistory, files, apiUrl, workspaceOpen, keepHistory, h, settled, appended, calc>>

(* ----------------------------- bounds ---------------------------------- *)
MaxExch == 2      \* handler invocations of the chat view
MaxLines == 3     \* lines one response stream delivers, over all its chunks
MaxChatData == 1  \* data events of one response stream in the chat view's specification

Proc == 1..MaxExch

(* ------------------------------ texts ---------------------------------- *)
Hel == <<"H", "e", "l">>
Lo == <<"l", "o">>
Hello == <<"H", "e", "l", "l", "o">>
InvalidUrlText == <<"Invalid Ollama URL.">>
ConnectErrorText == <<"Error connecting to Ollama.">>

SetMin(S) == CHOOSE x \in S : \A y \in S : x <= y

StartsWith(line, prefix) ==
  Len(line) >= Len(prefix) /\ SubSeq(line, 1, Len(prefix)) = prefix

\* apiUrl.startsWith('http'), an address being a sequence of characters
StartsWithHttp(url) == StartsWith(url, <<"h", "t", "t", "p">>)

\* 'http://h:1' and 'h:1'
LocalUrl == <<"h", "t", "t", "p", ":", "/", "/", "h", ":", "1">>
BareHost == <<"h", ":", "1">>

(* ---------------------------- promises --------------------------------- *)
\* A promise settles once: later resolve/reject calls change nothing.
\* `at` records how many webview messages the call had posted when it settled.
Pending == [state |-> "pending", value |-> <<>>, at |-> -1]

Resolve(p, v, n) ==
  IF p.state = "pending" THEN [state |-> "resolved", value |-> v, at |-> n] ELSE p

Reject(p, n) ==
  IF p.state = "pending" THEN [state |-> "rejected", value |-> <<>>, at |-> n] ELSE p

(* ----------------------- stream fragments ------------------------------ *)
\* One line of a data chunk.  kind: "blank" (only white space), "bad" (JSON.parse
\* throws), "null" (the JSON value null), "obj" (an object; msg says whether it has
\* a message member, content is message.content, done its done member).
Frag(k, m, c, d) == [kind |-> k, msg |-> m, content |-> c, done |-> d]
Blank == Frag("blank", FALSE, <<>>, FALSE)
Bad == Frag("bad", FALSE, <<>>, FALSE)
Null == Frag("null", FALSE, <<>>, FALSE)
Obj(c, d) == Frag("obj", TRUE, c, d)
DoneOnly == Frag("obj", FALSE, <<>>, TRUE)

Update(c, full) == [command |-> "streamingUpdate", content |-> c, fullContent |-> full]
StartStreaming == [command |-> "startStreaming", content |-> <<>>, fullContent |-> <<>>]
StreamingComplete == [command |-> "streamingComplete", content |-> <<>>, fullContent |-> <<>>]

\* chunk.toString().split('\n').filter(line => line.trim())
ChunkLines(chunk) == SelectSeq(chunk, LAMBDA f : f.kind # "blank")

\* The body of the for loop of the data handler, on the call state
\* st = [full, posted, promise]: lines 932-953.
ProcessLine(st, f) ==
  IF f.kind \in {"bad", "null"}
  THEN st
  ELSE
    LET hasContent == f.msg /\ f.content # <<>>
        full1 == IF hasContent THEN st.full \o f.content ELSE st.full
        st1 == IF hasContent
               THEN [st EXCEPT !.full = full1,
                               !.posted = Append(@, Update(f.content, full1))]
               ELSE st
    IN IF f.done
       THEN [st1 EXCEPT !.promise = Resolve(@, st1.full, Len(st1.posted))]
       ELSE st1

\* A variant that gives up on the rest of the chunk at a line that does not decode.
RECURSIVE ProcessLinesStopAtBad(_, _)
ProcessLinesStopAtBad(st, lines) ==
  IF lines = <<>> THEN st
  ELSE IF Head(lines).kind \in {"bad", "null"} THEN st
  ELSE ProcessLinesStopAtBad(ProcessLine(st, Head(lines)), Tail(lines))

\* for (const line of lines) { try { ... } catch (parseError) { } }: lines 931-954.
RECURSIVE ProcessLines(_, _)
ProcessLines(st, lines) ==
  IF lines = <<>> THEN st
  ELSE ProcessLines(ProcessLine(st, Head(lines)), Tail(lines))

(* --------------------------- suggestions ------------------------------- *)
\* A response token that stands for one whole occurrence of the suggestion
\* pattern (marker line, rationale, fenced block).
SugTokens == {"S1", "S2"}
OrigCode == <<"old1", "old2">>
NewCodeA == <<"newA">>
NewCodeB == <<"newB1", "newB2", "newB3">>

SugOf(tok) ==
  IF tok = "S1"
  THEN [filename |-> "foo.ts", description |-> "Fix typo", newCode |-> NewCodeA]
  ELSE [filename |-> "gone.ts", description |-> "Add file", newCode |-> NewCodeB]

\* The matches of suggestionPattern in the response, in order of occurrence.
RECURSIVE ParseSuggestions(_)
ParseSuggestions(response) ==
  IF response = <<>> THEN <<>>
  ELSE IF Head(response) \in SugTokens
       THEN <<SugOf(Head(response))>> \o ParseSuggestions(Tail(response))
       ELSE ParseSuggestions(Tail(response))

(* ------------------------ the suggestion pattern ----------------------- *)
\* /\*\*SUGGESTED CHANGES FOR (.+?):\*\*\s*(.*?)\s*FENCE(\w+)?\s*([\s\S]*?)FENCE/gi
\* (line 729, FENCE being three back quotes) on a text given as a sequence of
\* tokens: the marker in either case, the ':**' that ends it, a fence, a line
\* feed, a blank, a word (word characters only) or a symbol (none).
Marker == "**SUGGESTED CHANGES FOR "
MarkerLower == "**suggested changes for "
MarkerEnd == ":**"
Fence == "fence"
NL == "\n"
SP == " "
WordTokens == {"foo", "bar", "ts", "const", "x", "Fix", "typo", "1"}

IsMarker(tok) == tok \in {Marker, MarkerLower}
IsSpace(tok) == tok \in {NL, SP}
NoLineFeed(toks) == \A i \in 1..Len(toks) : toks[i] # NL

\* String.prototype.trim
RECURSIVE TrimStart(_)
TrimStart(toks) ==
  IF toks # <<>> /\ IsSpace(Head(toks)) THEN TrimStart(Tail(toks)) ELSE toks

RECURSIVE TrimEnd(_)
TrimEnd(toks) ==
  IF toks # <<>> /\ IsSpace(toks[Len(toks)])
  THEN TrimEnd(SubSeq(toks, 1, Len(toks) - 1)) ELSE toks

Trim(toks) == TrimEnd(TrimStart(toks))

\* The end of the run of word tokens that starts right after position f: (\w+)?
RECURSIVE WordRunEnd(_, _)
WordRunEnd(toks, f) ==
  IF f + 1 <= Len(toks) /\ toks[f + 1] \in WordTokens THEN WordRunEnd(toks, f + 1) ELSE f

\* The places where (.+?) may end for a match that begins at the marker at i:
\* the ':**' tokens after at least one token, no line feed in between
NameEnds(toks, i) ==
  {j \in (i + 2)..Len(toks) : toks[j] = MarkerEnd /\ NoLineFeed(SubSeq(toks, i + 1, j - 1))}

\* The fences that may open the block after the ':**' at j: \s*(.*?)\s* lets
\* white space, text without a line feed, and white space stand in between
OpeningFences(toks, j) ==
  {f \in (j + 1)..Len(toks) : toks[f] = Fence /\ NoLineFeed(Trim(SubSeq(toks, j + 1, f - 1)))}

\* The fences that may close the block opened at f
ClosingFences(toks, f) ==
  {g \in (WordRunEnd(toks, f) + 1)..Len(toks) : toks[g] = Fence}

\* The match that begins at i, if any: the lazy groups take the first end
\* that lets the rest of the pattern match
MatchAt(toks, i) ==
  LET js == {j \in NameEnds(toks, i) :
               \E f \in OpeningFences(toks, j) : ClosingFences(toks, f) # {}}
  IN IF ~IsMarker(toks[i]) \/ js = {} THEN [found |-> FALSE]
     ELSE LET j == SetMin(js)
              f == SetMin({x \in OpeningFences(toks, j) : ClosingFences(toks, x) # {}})
              g == SetMin(ClosingFences(toks, f))
          IN [found |-> TRUE, index |-> i, last |-> g,
              filename |-> Trim(SubSeq(toks, i + 1, j - 1)),
              description |-> Trim(SubSeq(toks, j + 1, f - 1)),
              language |-> SubSeq(toks, f + 1, WordRunEnd(toks, f)),
              newCode |-> Trim(SubSeq(toks, WordRunEnd(toks, f) + 1, g - 1))]

\* A variant of the loop that stops after the first match.
RECURSIVE MatchSuggestionsOnce(_, _)
MatchSuggestionsOnce(toks, lastIndex) ==
  LET starts == {i \in (lastIndex + 1)..Len(toks) : MatchAt(toks, i).found}
  IN IF starts = {} THEN <<>> ELSE <<MatchAt(toks, SetMin(starts))>>

\* while ((match = suggestionPattern.exec(response)) !== null): lines 732-736,
\* the matches from lastIndex on
RECURSIVE MatchSuggestions(_, _)
MatchSuggestions(toks, lastIndex) ==
  LET starts == {i \in (lastIndex + 1)..Len(toks) : MatchAt(toks, i).found}
  IN IF starts = {} THEN <<>>
     ELSE LET m == MatchAt(toks, SetMin(starts))
          IN <<m>> \o MatchSuggestions(toks, m.last)

(* ------------------------- applyDiffToContent -------------------------- *)
\* A line of a diff text: t = "@@" (a hunk header; ok says whether the header
\* pattern matches, start is its first number), "-" or "+" (s is the rest of
\* the line), "other" (anything else).
Hunk(n) == [t |-> "@@", ok |-> TRUE, start |-> n, s |-> ""]
BadHunk == [t |-> "@@", ok |-> FALSE, start |-> 0, s |-> ""]
Minus(x) == [t |-> "-", ok |-> TRUE, start |-> 0, s |-> x]
Plus(x) == [t |-> "+", ok |-> TRUE, start |-> 0, s |-> x]
Other == [t |-> "other", ok |-> TRUE, start |-> 0, s |-> ""]

\* A variant that looks for the line from the top of the content.
FindIndexFromTop(result, lineOffset, content) ==
  LET hits == {i \in 1..Len(result) : result[i] = content}
  IN IF hits = {} THEN -1 ELSE SetMin(hits) - 1

\* result.findIndex((l, idx) => idx >= lineOffset && l === content), 0-based, -1 if none
FindIndex(result, lineOffset, content) ==
  LET hits == {i \in 1..Len(result) : i - 1 >= lineOffset /\ result[i] = content}
  IN IF hits = {} THEN -1 ELSE SetMin(hits) - 1

\* result.splice(index, 1)
SpliceRemove(result, index) ==
  SubSeq(result, 1, index) \o SubSeq(result, index + 2, Len(result))

\* result.splice(start, 0, content): a start beyond the end appends, a negative
\* start counts from the end
SpliceInsert(result, start, content) ==
  LET n == Len(result)
      k == IF start < 0 THEN (IF n + start < 0 THEN 0 ELSE n + start)
           ELSE IF start > n THEN n ELSE start
  IN SubSeq(result, 1, k) \o <<content>> \o SubSeq(result, k + 1, n)

\* One pass of the loop over diffLines on st = [result, lineOffset]: lines 1036-1056.
ApplyDiffLine(st, d) ==
  IF d.t = "@@"
  THEN IF d.ok THEN [st EXCEPT !.lineOffset = d.start - 1] ELSE st
  ELSE IF d.t = "-"
  THEN LET index == FindIndex(st.result, st.lineOffset, d.s)
       IN IF index # -1 THEN [st EXCEPT !.result = SpliceRemove(@, index)] ELSE st
  ELSE IF d.t = "+"
  THEN [result |-> SpliceInsert(st.result, st.lineOffset, d.s),
        lineOffset |-> st.lineOffset + 1]
  ELSE st

RECURSIVE ApplyDiffLines(_, _)
ApplyDiffLines(st, diffLines) ==
  IF diffLines = <<>> THEN st
  ELSE ApplyDiffLines(ApplyDiffLine(st, Head(diffLines)), Tail(diffLines))

applyDiffToContent(originalContent, diffText) ==
  ApplyDiffLines([result |-> originalContent, lineOffset |-> 0], diffText).result

(* --------------------------- diff texts -------------------------------- *)
\* A line of text is a sequence of characters, a text a sequence of lines
\* (what split('\n') gives).  Decimal numbers of one digit are written and read
\* back as a character.
Digits == <<"0", "1", "2", "3", "4", "5", "6", "7", "8", "9">>
ToDigit(n) == Digits[n + 1]
IsDigit(ch) == \E i \in 1..Len(Digits) : Digits[i] = ch
ParseInt(ch) == (CHOOSE i \in 1..Len(Digits) : Digits[i] = ch) - 1

\* line.match(/@@ -(\d+),?\d* \+(\d+),?\d* @@/) on a line whose numbers have
\* one digit: the first group, or -1 when the pattern does not match
HunkStart(line) ==
  LET hits == {i \in 1..Len(line) :
                 \E j \in (i + 5)..Len(line) :
                   /\ SubSeq(line, i, i + 3) = <<"@", "@", " ", "-">>
                   /\ j + 2 <= Len(line)
                   /\ SubSeq(line, j, j + 2) = <<" ", "@", "@">>
                   /\ LET mid == SubSeq(line, i + 4, j - 1)
                          sp == {k \in 1..Len(mid) : mid[k] = " "}
                      IN /\ Cardinality(sp) = 1
                         /\ \E k \in sp :
                              /\ k >= 2 /\ k + 2 <= Len(mid)
                              /\ IsDigit(mid[1])
                              /\ \A q \in 2..(k - 1) : IsDigit(mid[q]) \/ mid[q] = ","
                              /\ Cardinality({q \in 2..(k - 1) : mid[q] = ","}) <= 1
                              /\ mid[k + 1] = "+" /\ IsDigit(mid[k + 2])
                              /\ \A q \in (k + 3)..Len(mid) : IsDigit(mid[q]) \/ mid[q] = ","
                              /\ Cardinality({q \in (k + 3)..Len(mid) : mid[q] = ","}) <= 1}
  IN IF hits = {} THEN -1 ELSE ParseInt(line[SetMin(hits) + 4])

\* How the loop of applyDiffToContent reads one line of the diff text:
\* lines 1038-1040, 1044-1046, 1051-1053
ReadDiffLine(line) ==
  IF StartsWith(line, <<"@", "@">>)
  THEN (IF HunkStart(line) # -1 THEN Hunk(HunkStart(line)) ELSE BadHunk)
  ELSE IF StartsWith(line, <<"-">>) THEN Minus(Tail(line))
  ELSE IF StartsWith(line, <<"+">>) THEN Plus(Tail(line))
  ELSE Other

\* diffText.split('\n') read line by line
ReadDiff(diffText) == [i \in 1..Len(diffText) |-> ReadDiffLine(diffText[i])]

\* The line differences of two texts as the lines of a hunk: a common line is
\* prefixed with a blank, a removed one with '-', an added one with '+'; the
\* shortest script, removals before additions.
RECURSIVE HunkBody(_, _)
HunkBody(old, new) ==
  IF old = <<>> THEN [i \in 1..Len(new) |-> <<"+">> \o new[i]]
  ELSE IF new = <<>> THEN [i \in 1..Len(old) |-> <<"-">> \o old[i]]
  ELSE IF Head(old) = Head(new)
       THEN <<(<<" ">> \o Head(old))>> \o HunkBody(Tail(old), Tail(new))
       ELSE LET del == <<(<<"-">> \o Head(old))>> \o HunkBody(Tail(old), new)
                add == <<(<<"+">> \o Head(new))>> \o HunkBody(old, Tail(new))
            IN IF Len(del) <= Len(add) THEN del ELSE add

\* '@@ -' + oldStart + ',' + oldLines + ' +' + newStart + ',' + newLines + ' @@'
HunkHeader(oldStart, oldLines, newStart, newLines) ==
  <<"@", "@", " ", "-", ToDigit(oldStart), ",", ToDigit(oldLines), " ",
    "+", ToDigit(newStart), ",", ToDigit(newLines), " ", "@", "@">>

\* diff.createPatch(fileName, oldStr, newStr), split into lines: the Index
\* line, the rule, the two file lines, then (the texts being short enough for
\* one hunk with its default context to cover them) one hunk when the texts
\* differ, and the empty line after the last line feed.  The marker lines
\* '\ No newline at end of file' start with a backslash and are left out.
createPatch(fileName, oldStr, newStr) ==
  << <<"I", "n", "d", "e", "x", ":", " ", fileName>>,
     <<"=", "=", "=">>,
     <<"-", "-", "-", " ", fileName>>,
     <<"+", "+", "+", " ", fileName>> >>
  \o (IF oldStr = newStr THEN <<>>
      ELSE <<HunkHeader(1, Len(oldStr), 1, Len(newStr))>> \o HunkBody(oldStr, newStr))
  \o << <<>> >>

(* --------------------------- approval panel ---------------------------- *)
\* The promise of showSideBySideDiffPreview / showDiffPreview settles with the
\* first resolve call.  panel.dispose() makes the host fire onDidDispose; the
\* source does not fix whether the host fires it inside dispose() (sync) or
\* later, so both orders are modelled.
NoDecision == [state |-> "pending", value |-> FALSE]

ResolveDecision(p, b) ==
  IF p.state = "pending" THEN [state |-> "resolved", value |-> b] ELSE p

\* panel.onDidDispose(() => resolve(false)): lines 1097-1099, 1130-1132
DisposeHandler(p) == ResolveDecision(p, FALSE)

\* case 'apply': panel.dispose(); resolve(true): lines 1086-1089, 1119-1122
ApplyHandler(p, sync) ==
  LET p1 == IF sync THEN DisposeHandler(p) ELSE p
      p2 == ResolveDecision(p1, TRUE)
  IN IF sync THEN p2 ELSE DisposeHandler(p2)

\* A variant in which cancel reports an approval.
CancelHandlerApproves(p, sync) == ResolveDecision(p, TRUE)

\* case 'cancel': panel.dispose(); resolve(false): lines 1090-1093, 1123-1126
CancelHandler(p, sync) ==
  LET p1 == IF sync THEN DisposeHandler(p) ELSE p
      p2 == ResolveDecision(p1, FALSE)
  IN IF sync THEN p2 ELSE DisposeHandler(p2)

(* ------------------------------ history -------------------------------- *)
HistoryLimit == 10

\* `User: ${userMsg}\nAICA: ${response}`
Turn(userMsg, response) == [kind |-> "turn", user |-> userMsg, aica |-> response]

\* chatHistory.slice(-n)
LastN(seq, n) ==
  IF Len(seq) <= n THEN seq ELSE SubSeq(seq, Len(seq) - n + 1, Len(seq))

\* A variant that keeps the oldest entries instead of the newest.
PushTurnKeepsOldest(hist, userMsg, response, keep) ==
  LET pushedHist == Append(hist, Turn(userMsg, response))
  IN IF ~keep /\ Len(pushedHist) > HistoryLimit
     THEN SubSeq(pushedHist, 1, HistoryLimit)
     ELSE pushedHist

\* lines 39-42
PushTurn(hist, userMsg, response, keep) ==
  LET pushedHist == Append(hist, Turn(userMsg, response))
  IN IF ~keep THEN LastN(pushedHist, HistoryLimit) ELSE pushedHist

\* `Attached: ${uri[0].fsPath}\n${content}`
Attached(filePath, content) == [kind |-> "attached", user |-> <<filePath>>, aica |-> content]

(* ------------------------- handler invocations ------------------------- *)
NoMsg == [command |-> "none", text |-> <<>>, diff |-> <<>>, filePath |-> "",
          originalCode |-> <<>>, newCode |-> <<>>]
NoPreview == [original |-> <<>>, modified |-> <<>>, filePath |-> "", kind |-> "none"]

\* The local state of one invocation of the handler.
\*   pc            where the invocation stands ("idle": not started)
\*   msg           the message it handles
\*   prompt        fullPrompt (line 33), once built
\*   stream        the response stream: "none", "open", "ended", "failed"
\*   nLines        lines the stream has delivered
\*   fullResponse  the accumulator of getOllamaChat (line 925)
\*   promise       the promise getOllamaChat returns
\*   response      the awaited value (line 34)
\*   sugs          the matches of the suggestion pattern not yet handled
\*   pv            the arguments of the running preview
\*   decision      the promise of the approval panel
\* and, kept for stating properties only:
\*   received      the non-blank lines delivered so far
\*   posted        the messages posted to the chat webview
\*   notices       the show*Message notifications raised
\*   pressed       what the user did with the panel
\*   wrote         how the write of the running preview ended
\*   log           what became of each suggestion: skipped, shown, returned
InitH ==
  [pc |-> "idle", msg |-> NoMsg, prompt |-> <<>>, stream |-> "none", nLines |-> 0,
   received |-> <<>>, fullResponse |-> <<>>, promise |-> Pending, posted |-> <<>>,
   notices |-> <<>>, response |-> <<>>, sugs |-> <<>>, pv |-> NoPreview,
   pressed |-> "none", decision |-> NoDecision, wrote |-> "none", log |-> <<>>]

LogEntry(ev, filename, why) == [ev |-> ev, file |-> filename, why |-> why]

\* Positions at which an invocation is ready to run without waiting for the host.
MicroPc == {"prompt", "resume", "sugLoop", "decided"}
Quiet == \A p \in Proc : h[p].pc \notin MicroPc

\* Invocations start in the order of their numbers.
NextFree(e) == h[e].pc = "idle" /\ \A p \in Proc : p < e => h[p].pc # "idle"

Globals == <<chatHistory, files, apiUrl, workspaceOpen, keepHistory, appended, calc>>
Config == <<apiUrl, workspaceOpen, keepHistory>>

\* case 'sendMessage' up to the first await: lines 21-33 (text does not start with '/')
ReceiveSendMessage(e, text) ==
  /\ Quiet /\ NextFree(e)
  /\ h' = [h EXCEPT ![e] = [@ EXCEPT
            !.msg = [NoMsg EXCEPT !.command = "sendMessage", !.text = text],
            !.posted = Append(@, StartStreaming),
            !.pc = IF workspaceOpen THEN "context" ELSE "prompt"]]
  /\ UNCHANGED <<Globals, settled>>

\* The host answers findFiles / openTextDocument of _getRelevantCodebaseContext: lines 269-349
ContextRead(e) ==
  /\ Quiet /\ h[e].pc = "context"
  /\ h' = [h EXCEPT ![e].pc = "prompt"]
  /\ UNCHANGED <<Globals, settled>>

\* The rest of _buildChatPrompt (the history is read here, line 178) and
\* getOllamaChat up to its first await: lines 905-923
BuildPromptAndCall(e) ==
  /\ h[e].pc = "prompt"
  /\ LET fullPrompt == [history |-> chatHistory, userMsg |-> h[e].msg.text]
     IN IF ~StartsWithHttp(apiUrl)
        THEN /\ h' = [h EXCEPT ![e] = [@ EXCEPT
                       !.prompt = <<fullPrompt>>,
                       !.notices = Append(@, "warning: Invalid apiUrl"),
                       !.promise = Resolve(Pending, InvalidUrlText, Len(h[e].posted)),
                       !.pc = "resume"]]
             /\ settled' = Append(settled, e)
        ELSE /\ h' = [h EXCEPT ![e] = [@ EXCEPT !.prompt = <<fullPrompt>>, !.pc = "posting"]]
             /\ UNCHANGED settled
  /\ UNCHANGED Globals

\* axios.post throws (server unreachable, non-2xx): lines 968-972
PostFails(e) ==
  /\ Quiet /\ h[e].pc = "posting"
  /\ h' = [h EXCEPT ![e] = [@ EXCEPT
            !.notices = Append(@, "error: Ollama error"),
            !.promise = Resolve(Pending, ConnectErrorText, Len(h[e].posted)),
            !.pc = "resume"]]
  /\ settled' = Append(settled, e)
  /\ UNCHANGED Globals

\* axios.post returns the response stream; the three listeners are registered: lines 925-967
PostOk(e) ==
  /\ Quiet /\ h[e].pc = "posting"
  /\ h' = [h EXCEPT ![e] = [@ EXCEPT
            !.fullResponse = <<>>, !.promise = Pending, !.stream = "open",
            !.nLines = 0, !.pc = "awaitChat"]]
  /\ UNCHANGED <<Globals, settled>>

\* The call's promise after a stream event: the awaiting handler becomes ready
\* when the event settled it.
AfterEvent(e, rec) ==
  LET now == h[e].promise.state = "pending" /\ rec.promise.state # "pending"
  IN /\ h' = [h EXCEPT ![e] = IF now THEN [rec EXCEPT !.pc = "resume"] ELSE rec]
     /\ settled' = IF now THEN Append(settled, e) ELSE settled

\* response.data.on('data', ...): lines 928-955
OnData(e, chunk) ==
  /\ Quiet /\ h[e].stream = "open"
  /\ LET st == ProcessLines([full |-> h[e].fullResponse, posted |-> h[e].posted,
                             promise |-> h[e].promise], ChunkLines(chunk))
     IN AfterEvent(e, [h[e] EXCEPT
           !.fullResponse = st.full, !.posted = st.posted, !.promise = st.promise,
           !.nLines = @ + Len(chunk), !.received = @ \o ChunkLines(chunk)])
  /\ UNCHANGED Globals

\* A variant of the end listener that only reports completion.
EndHandlerNoResolve(rec) ==
  [rec EXCEPT !.posted = Append(@, StreamingComplete), !.stream = "ended"]

\* response.data.on('end', ...): lines 957-962
EndHandler(rec) ==
  LET posted1 == Append(rec.posted, StreamingComplete)
  IN [rec EXCEPT !.posted = posted1,
                 !.promise = Resolve(@, rec.fullResponse, Len(posted1)),
                 !.stream = "ended"]

OnEnd(e) ==
  /\ Quiet /\ h[e].stream = "open"
  /\ AfterEvent(e, EndHandler(h[e]))
  /\ UNCHANGED Globals

\* A variant of the error listener that swallows the error.
ErrorHandlerIgnores(rec) == [rec EXCEPT !.stream = "failed"]

\* response.data.on('error', ...): lines 964-966
ErrorHandler(rec) ==
  [rec EXCEPT !.promise = Reject(@, Len(rec.posted)), !.stream = "failed"]

OnError(e) ==
  /\ Quiet /\ h[e].stream = "open"
  /\ AfterEvent(e, ErrorHandler(h[e]))
  /\ UNCHANGED Globals

\* The handler resumes after `await getOllamaChat(...)`: line 34.  Nothing in
\* the handler catches a rejection; a resolved value goes to the suggestion
\* parser (lines 729-732).
Resume(e) ==
  /\ h[e].pc = "resume"
  /\ h' = [h EXCEPT ![e] =
            IF h[e].promise.state = "rejected"
            THEN [@ EXCEPT !.pc = "unhandled"]
            ELSE [@ EXCEPT !.response = h[e].promise.value,
                           !.sugs = ParseSuggestions(h[e].promise.value),
                           !.pc = "sugLoop"]]
  /\ UNCHANGED <<Globals, settled>>

\* One test of the while loop of _parseAndHandleCodeSuggestions (lines 732-743)
\* and, when no match is left, the append of the turn (lines 39-42).
SugLoop(e) ==
  /\ h[e].pc = "sugLoop"
  /\ IF h[e].sugs = <<>>
     THEN /\ chatHistory' = PushTurn(chatHistory, h[e].msg.text, h[e].response, keepHistory)
          /\ appended' = Append(appended, Turn(h[e].msg.text, h[e].response))
          /\ h' = [h EXCEPT ![e].pc = "done"]
     ELSE /\ h' = [h EXCEPT ![e] =
                    IF ~workspaceOpen
                    THEN [@ EXCEPT !.sugs = Tail(@),
                            !.log = Append(@, LogEntry("skipped", Head(h[e].sugs).filename,
                                                       "no workspace"))]
                    ELSE [@ EXCEPT !.pc = "findFiles"]]
          /\ UNCHANGED <<chatHistory, appended>>
  /\ UNCHANGED <<files, Config, settled, calc>>

\* A variant that gives up on the whole response when a target is not found.
FindFilesGivesUp(e) ==
  /\ Quiet /\ h[e].pc = "findFiles"
  /\ h' = [h EXCEPT ![e] =
            IF Head(h[e].sugs).filename \notin DOMAIN files
            THEN [@ EXCEPT !.sugs = <<>>, !.pc = "sugLoop",
                    !.log = Append(@, LogEntry("skipped", Head(h[e].sugs).filename,
                                               "not found"))]
            ELSE [@ EXCEPT !.pc = "openDoc"]]
  /\ UNCHANGED <<Globals, settled>>

\* findFiles(`**/${filename}`) answers: lines 746-750
FindFiles(e) ==
  /\ Quiet /\ h[e].pc = "findFiles"
  /\ h' = [h EXCEPT ![e] =
            IF Head(h[e].sugs).filename \notin DOMAIN files
            THEN [@ EXCEPT !.sugs = Tail(@), !.pc = "sugLoop",
                    !.log = Append(@, LogEntry("skipped", Head(h[e].sugs).filename,
                                               "not found"))]
            ELSE [@ EXCEPT !.pc = "openDoc"]]
  /\ UNCHANGED <<Globals, settled>>

\* openTextDocument answers, previewCodeChange is called and
\* showSideBySideDiffPreview opens its panel: lines 752-757, 976-979, 1073-1083.
\* When the host call throws the catch clause goes on with the next match:
\* lines 759-763.
OpenDocument(e, ok) ==
  /\ Quiet /\ h[e].pc = "openDoc"
  /\ LET sug == Head(h[e].sugs)
     IN h' = [h EXCEPT ![e] =
               IF ok
               THEN [@ EXCEPT
                       !.pv = [original |-> files[sug.filename], modified |-> sug.newCode,
                               filePath |-> sug.filename, kind |-> "sideBySide"],
                       !.decision = NoDecision, !.pressed = "none", !.wrote = "none",
                       !.log = Append(@, LogEntry("shown", sug.filename, "")),
                       !.pc = "panel"]
               ELSE [@ EXCEPT !.sugs = Tail(@), !.pc = "sugLoop",
                       !.log = Append(@, LogEntry("skipped", sug.filename, "read error"))]]
  /\ UNCHANGED <<Globals, settled>>

\* The user presses Apply Changes in the panel: the 'apply' message arrives.
PressApply(e, sync) ==
  /\ Quiet /\ h[e].pc = "panel"
  /\ h' = [h EXCEPT ![e] = [@ EXCEPT
            !.decision = ApplyHandler(@, sync), !.pressed = "apply", !.pc = "decided"]]
  /\ UNCHANGED <<Globals, settled>>

\* The user presses Cancel: the 'cancel' message arrives.
PressCancel(e, sync) ==
  /\ Quiet /\ h[e].pc = "panel"
  /\ h' = [h EXCEPT ![e] = [@ EXCEPT
            !.decision = CancelHandler(@, sync), !.pressed = "cancel", !.pc = "decided"]]
  /\ UNCHANGED <<Globals, settled>>

\* The user closes the panel without a decision: onDidDispose fires.
Dismiss(e) ==
  /\ Quiet /\ h[e].pc = "panel"
  /\ h' = [h EXCEPT ![e] = [@ EXCEPT
            !.decision = DisposeHandler(@), !.pressed = "dismiss", !.pc = "decided"]]
  /\ UNCHANGED <<Globals, settled>>

\* previewCodeChange / applyCodeEdit return to their caller: the suggestion
\* loop goes on with the next match (line 732), a direct request is finished.
PreviewReturn(rec) ==
  IF rec.msg.command = "sendMessage"
  THEN [rec EXCEPT !.sugs = Tail(@), !.pc = "sugLoop",
          !.log = Append(@, LogEntry("returned", Head(rec.sugs).filename, rec.wrote))]
  ELSE [rec EXCEPT !.pc = "done"]

\* if (shouldApply): lines 981, 1013
ShouldApply(decision) == decision.value

\* The awaited decision arrives: lines 979-994, 1011-1020
PreviewDecided(e) ==
  /\ h[e].pc = "decided"
  /\ h' = [h EXCEPT ![e] =
            IF ShouldApply(h[e].decision)
            THEN [@ EXCEPT !.pc = "write"]
            ELSE PreviewReturn([@ EXCEPT !.notices = Append(@,
                   IF h[e].pv.kind = "diff" THEN "info: Edit cancelled"
                   ELSE "info: Changes cancelled")])]
  /\ UNCHANGED <<Globals, settled>>

\* edit.replace(uri, new Range(0, 0, doc.lineCount, 0), content): the whole
\* document is replaced
ReplaceAll(fs, filePath, content) == [fs EXCEPT ![filePath] = content]

\* openTextDocument and workspace.applyEdit answer: lines 982-991, 1014-1017,
\* and the catch clauses 995-997, 1021-1023.  outcome: "applied", "refused"
\* (applyEdit answers false), "thrown" (the host call throws).
WriteEdit(e, outcome) ==
  /\ Quiet /\ h[e].pc = "write"
  /\ h[e].pv.filePath \notin DOMAIN files => outcome = "thrown"
  /\ files' = IF outcome = "applied"
              THEN ReplaceAll(files, h[e].pv.filePath, h[e].pv.modified)
              ELSE files
  /\ h' = [h EXCEPT ![e] = PreviewReturn([@ EXCEPT
            !.wrote = outcome,
            !.notices = Append(@,
               IF outcome = "thrown"
               THEN (IF h[e].pv.kind = "diff" THEN "error: Edit failed"
                     ELSE "error: Preview failed")
               ELSE (IF h[e].pv.kind = "diff" THEN "info: Applied edit"
                     ELSE "info: Applied changes"))])]
  /\ UNCHANGED <<chatHistory, appended, Config, settled, calc>>

\* case 'previewCodeChange': previewCodeChange opens its panel: lines 57-58, 976-979
ReceivePreviewCodeChange(e, originalCode, newCode, filePath) ==
  /\ Quiet /\ NextFree(e)
  /\ h' = [h EXCEPT ![e] = [@ EXCEPT
            !.msg = [NoMsg EXCEPT !.command = "previewCodeChange",
                       !.originalCode = originalCode, !.newCode = newCode,
                       !.filePath = filePath],
            !.pv = [original |-> originalCode, modified |-> newCode,
                    filePath |-> filePath, kind |-> "sideBySide"],
            !.pc = "panel"]]
  /\ UNCHANGED <<Globals, settled>>

\* case 'applyEdit': applyCodeEdit awaits openTextDocument: lines 54-55, 1001-1004
ReceiveApplyEdit(e, diffText, filePath) ==
  /\ Quiet /\ NextFree(e)
  /\ h' = [h EXCEPT ![e] = [@ EXCEPT
            !.msg = [NoMsg EXCEPT !.command = "applyEdit", !.diff = diffText,
                       !.filePath = filePath],
            !.pc = "editOpen"]]
  /\ UNCHANGED <<Globals, settled>>

\* openTextDocument answers; the patched content is computed and showDiffPreview
\* opens its panel: lines 1004-1011, 1104-1115; a missing file throws: 1021-1023
EditOpen(e) ==
  /\ Quiet /\ h[e].pc = "editOpen"
  /\ LET filePath == h[e].msg.filePath
     IN h' = [h EXCEPT ![e] =
               IF filePath \notin DOMAIN files
               THEN [@ EXCEPT !.notices = Append(@, "error: Edit failed"), !.pc = "done"]
               ELSE [@ EXCEPT
                       !.pv = [original |-> files[filePath],
                               modified |-> applyDiffToContent(files[filePath], h[e].msg.diff),
                               filePath |-> filePath, kind |-> "diff"],
                       !.pc = "panel"]]
  /\ UNCHANGED <<Globals, settled>>

\* The command aica.attachFile, after the user has picked a file and the host
\* has opened it: the entry is pushed and nothing is cut: lines 831-839.
AttachFile(filePath) ==
  /\ Quiet /\ filePath \in DOMAIN files
  /\ chatHistory' = Append(chatHistory, Attached(filePath, files[filePath]))
  /\ appended' = Append(appended, Attached(filePath, files[filePath]))
  /\ UNCHANGED <<files, Config, h, settled, calc>>

\* { command: 'clearChat' }
ClearChat == [command |-> "clearChat", content |-> <<>>, fullContent |-> <<>>]

\* The invocations whose prompt is built and which have not ended
InFlight == {p \in Proc : h[p].prompt # <<>> /\ h[p].pc \notin {"idle", "done", "unhandled"}}

\* case 'clearHistory': lines 44-47.  The handler has no await; its log notes
\* the exchanges in flight at that moment.
ClearHistory(e) ==
  /\ Quiet /\ NextFree(e)
  /\ chatHistory' = <<>>
  /\ h' = [h EXCEPT ![e] = [@ EXCEPT
            !.msg = [NoMsg EXCEPT !.command = "clearHistory"],
            !.posted = Append(@, ClearChat),
            !.log = <<LogEntry("reset", "", InFlight)>>,
            !.pc = "done"]]
  /\ UNCHANGED <<files, Config, settled, appended, calc>>

\* The handler has returned: its invocation is over and its number is free
\* for the next message.
HandlerReturns(e) ==
  /\ Quiet /\ h[e].pc = "done"
  /\ h' = [h EXCEPT ![e] = InitH]
  /\ UNCHANGED <<Globals, settled>>

(* ------------------------------ keywords ------------------------------- *)
\* A string is written [chars, pad]: the characters chars followed by pad
\* full stops, so that a long string needs no long sequence.
Str(chars, pad) == [chars |-> chars, pad |-> pad]
Length(str) == Len(str.chars) + str.pad

LowerCase == <<"a", "b", "c", "d", "e", "f", "g", "h", "i", "j", "k", "l", "m", "n", "o", "p", "q", "r", "s", "t", "u", "v", "w", "x", "y", "z">>
UpperCase == <<"A", "B", "C", "D", "E", "F", "G", "H", "I", "J", "K", "L", "M", "N", "O", "P", "Q", "R", "S", "T", "U", "V", "W", "X", "Y", "Z">>

\* String.prototype.toLowerCase on one character
ToLowerChar(ch) ==
  IF \E i \in 1..Len(UpperCase) : UpperCase[i] = ch
  THEN LowerCase[CHOOSE i \in 1..Len(UpperCase) : UpperCase[i] = ch]
  ELSE ch

toLowerCase(chars) == [i \in 1..Len(chars) |-> ToLowerChar(chars[i])]

\* \w
IsWordChar(ch) ==
  \/ \E i \in 1..Len(LowerCase) : LowerCase[i] = ch
  \/ \E i \in 1..Len(UpperCase) : UpperCase[i] = ch
  \/ IsDigit(ch)
  \/ ch = "_"

\* The maximal runs of word characters of chars, in order; cur is the run
\* being read
RECURSIVE WordRuns(_, _)
WordRuns(chars, cur) ==
  IF chars = <<>> THEN (IF cur = <<>> THEN <<>> ELSE <<cur>>)
  ELSE IF IsWordChar(Head(chars)) THEN WordRuns(Tail(chars), Append(cur, Head(chars)))
  ELSE (IF cur = <<>> THEN <<>> ELSE <<cur>>) \o WordRuns(Tail(chars), <<>>)

\* chars.match(/\b\w{3,}\b/g) || []
MatchWords(chars) == SelectSeq(WordRuns(chars, <<>>), LAMBDA w : Len(w) >= 3)

\* [...new Set(words)]: the first occurrence of each word is kept
RECURSIVE Distinct(_)
Distinct(words) ==
  IF words = <<>> THEN <<>>
  ELSE LET rest == Distinct(SubSeq(words, 1, Len(words) - 1))
           last == words[Len(words)]
       IN IF \E i \in 1..Len(rest) : rest[i] = last THEN rest ELSE Append(rest, last)

\* The list of line 223
StopWords ==
  <<<<"t", "h", "e">>, <<"a", "n", "d">>, <<"f", "o", "r">>, <<"a", "r", "e">>,
    <<"b", "u", "t">>, <<"n", "o", "t">>, <<"y", "o", "u">>, <<"a", "l", "l">>,
    <<"c", "a", "n">>, <<"h", "a", "d">>, <<"h", "e", "r">>, <<"w", "a", "s">>,
    <<"o", "n", "e">>, <<"o", "u", "r">>, <<"o", "u", "t">>, <<"d", "a", "y">>,
    <<"g", "e", "t">>, <<"h", "a", "s">>, <<"h", "i", "m">>, <<"h", "i", "s">>,
    <<"h", "o", "w">>, <<"i", "t", "s">>, <<"m", "a", "y">>, <<"n", "e", "w">>,
    <<"n", "o", "w">>, <<"o", "l", "d">>, <<"s", "e", "e">>, <<"t", "w", "o">>,
    <<"w", "h", "o">>, <<"b", "o", "y">>, <<"d", "i", "d">>, <<"s", "h", "e">>,
    <<"u", "s", "e">>, <<"w", "a", "y">>, <<"w", "h", "a", "t">>,
    <<"w", "h", "e", "n">>, <<"w", "i", "t", "h">>>>

IsStopWord(word) == \E i \in 1..Len(StopWords) : StopWords[i] = word

\* A variant that forgets to drop the words of the list.
extractKeywordsKeepsAll(text) == Distinct(MatchWords(toLowerCase(text.chars)))

\* _extractKeywords: lines 219-225
extractKeywords(text) ==
  SelectSeq(Distinct(MatchWords(toLowerCase(text.chars))), LAMBDA w : ~IsStopWord(w))

(* --------------------------- history section --------------------------- *)
\* chars occurs in text as a run of consecutive characters: text.includes(chars)
Includes(text, chars) ==
  \E i \in 0..(Len(text) - Len(chars)) : SubSeq(text, i + 1, i + Len(chars)) = chars

\* The back quote character
BackQuote == "backquote"

\* The substrings of lines 242-244 and of lines 249-250
CodeSignals ==
  <<<<"f", "u", "n", "c", "t", "i", "o", "n">>, <<"c", "l", "a", "s", "s">>,
    <<"i", "m", "p", "o", "r", "t">>, <<"c", "o", "n", "s", "t">>, <<"l", "e", "t">>,
    <<"v", "a", "r">>, <<BackQuote, BackQuote, BackQuote>>, <<"e", "r", "r", "o", "r">>,
    <<"b", "u", "g">>>>
FileOpSignals ==
  <<<<"/", "r", "e", "a", "d">>, <<"/", "w", "r", "i", "t", "e">>,
    <<"/", "e", "x", "e", "c">>, <<"a", "t", "t", "a", "c", "h", "e", "d", ":">>,
    <<"r", "e", "a", "d", " ", "f", "i", "l", "e", ":">>>>

IncludesAny(text, signals) == \E i \in 1..Len(signals) : Includes(text, signals[i])

\* _scoreLineRelevance: lines 227-255.  The value is the score multiplied by
\* total (the same for all lines of one call, and positive), which keeps the
\* recency term (index / total) * 10 a whole number.
scoreLineRelevance(line, keywords, index, total) ==
  LET lowerLine == toLowerCase(line.chars)
      hits == Cardinality({k \in 1..Len(keywords) : Includes(lowerLine, keywords[k])})
  IN index * 10
     + total * (5 * hits
                + (IF IncludesAny(lowerLine, CodeSignals) THEN 3 ELSE 0)
                + (IF IncludesAny(lowerLine, FileOpSignals) THEN 4 ELSE 0))

\* The length of lines.join('\n')
RECURSIVE SumLengths(_)
SumLengths(lines) ==
  IF lines = <<>> THEN 0 ELSE Length(Head(lines)) + SumLengths(Tail(lines))

JoinedLength(lines) == IF lines = <<>> THEN 0 ELSE SumLengths(lines) + Len(lines) - 1

\* history.join('\n').split('\n'): an entry of the history is given as its lines
RECURSIVE Flatten(_)
Flatten(history) == IF history = <<>> THEN <<>> ELSE Head(history) \o Flatten(Tail(history))

\* scoredLines.sort((a, b) => b.score - a.score): descending, and stable
RECURSIVE SortByScore(_)
SortByScore(scored) ==
  IF scored = <<>> THEN <<>>
  ELSE LET sorted == SortByScore(SubSeq(scored, 1, Len(scored) - 1))
           item == scored[Len(scored)]
           k == Cardinality({i \in 1..Len(sorted) : sorted[i].score >= item.score})
       IN SubSeq(sorted, 1, k) \o <<item>> \o SubSeq(sorted, k + 1, Len(sorted))

\* result += (result ? '\n' : '') + line, the string result being given as its
\* lines: the empty string is <<>>, and stays so when an empty line is added
AddLine(result, line) ==
  IF result = <<>> THEN (IF Length(line) = 0 THEN <<>> ELSE <<line>>)
  ELSE Append(result, line)

\* A variant of the loop that forgets the line feed in its test.
RECURSIVE SelectLinesNoSeparator(_, _, _)
SelectLinesNoSeparator(items, result, maxLength) ==
  IF items = <<>> THEN result
  ELSE IF JoinedLength(result) + Length(Head(items).line) <= maxLength
       THEN SelectLinesNoSeparator(Tail(items), AddLine(result, Head(items).line), maxLength)
       ELSE SelectLinesNoSeparator(Tail(items), result, maxLength)

\* The loop of lines 209-214
RECURSIVE SelectLines(_, _, _)
SelectLines(items, result, maxLength) ==
  IF items = <<>> THEN result
  ELSE IF JoinedLength(result) + Length(Head(items).line) + 1 <= maxLength
       THEN SelectLines(Tail(items), AddLine(result, Head(items).line), maxLength)
       ELSE SelectLines(Tail(items), result, maxLength)

\* _getRelevantContext: lines 185-217.  The result is given as its lines.
getRelevantContext(history, currentMsg, maxLength) ==
  IF history = <<>> THEN <<>>
  ELSE LET lines == Flatten(history)
       IN IF JoinedLength(lines) <= maxLength THEN lines
          ELSE LET keywords == extractKeywords(currentMsg)
                   scoredLines == [i \in 1..Len(lines) |->
                                     [line |-> lines[i],
                                      score |-> scoreLineRelevance(lines[i], keywords,
                                                                   i - 1, Len(lines))]]
               IN SelectLines(SortByScore(scoredLines), <<>>, maxLength)

(* ----------------------------- the prompt ------------------------------ *)
\* The prompt and its sections are given by their lengths.
SystemPromptLength == 883
ContextWindowSize == 12000

\* The loop of lines 325-349 over the chosen files, each given as the lengths
\* of its base name and of its content and whether the host can open it;
\* the result is the length of context
RECURSIVE AddFileSections(_, _, _)
AddFileSections(topFiles, context, remainingLength) ==
  IF topFiles = <<>> \/ remainingLength < 200 THEN context
  ELSE LET file == Head(topFiles)
           maxFileContent == IF remainingLength - 50 < 800 THEN remainingLength - 50 ELSE 800
           truncatedContent == IF file.content > maxFileContent
                               THEN maxFileContent + 3 ELSE file.content
           fileSection == 5 + file.name + 5 + truncatedContent + 1
       IN IF file.readable /\ fileSection <= remainingLength
          THEN AddFileSections(Tail(topFiles), context + fileSection,
                               remainingLength - fileSection)
          ELSE AddFileSections(Tail(topFiles), context, remainingLength)

\* _getRelevantCodebaseContext: lines 257-355.  found says whether findFiles
\* answers (it throws otherwise); topFiles are the files chosen by lines 276-319.
getRelevantCodebaseContext(workspaceFolders, found, topFiles, maxLength) ==
  IF ~workspaceFolders \/ maxLength < 100 THEN 0
  ELSE IF ~found THEN 0
  ELSE LET context == AddFileSections(topFiles, 18, maxLength - 18)
       IN IF context > 50 THEN context ELSE 0

\* --- the choice of the files: lines 265-319
\* \s
IsBlankChar(ch) == ch \in {" ", "\n", "\t", "\r"}

\* chars cut into runs of word characters ("w"), runs of blanks ("s") and
\* single other characters ("o")
RECURSIVE Tokenize(_, _)
Tokenize(chars, toks) ==
  IF chars = <<>> THEN toks
  ELSE LET ch == Head(chars)
           kind == IF IsWordChar(ch) THEN "w" ELSE IF IsBlankChar(ch) THEN "s" ELSE "o"
           n == Len(toks)
       IN IF n > 0 /\ kind # "o" /\ toks[n].kind = kind
          THEN Tokenize(Tail(chars), [toks EXCEPT ![n].text = Append(@, ch)])
          ELSE Tokenize(Tail(chars), Append(toks, [kind |-> kind, text |-> <<ch>>]))

\* The alternatives of the patterns of lines 360-364
DeclWords ==
  {<<"f", "u", "n", "c", "t", "i", "o", "n">>, <<"c", "l", "a", "s", "s">>,
   <<"i", "n", "t", "e", "r", "f", "a", "c", "e">>, <<"t", "y", "p", "e">>,
   <<"c", "o", "n", "s", "t">>, <<"l", "e", "t">>, <<"v", "a", "r">>,
   <<"i", "m", "p", "o", "r", "t">>, <<"e", "x", "p", "o", "r", "t">>}
PartWords ==
  {<<"c", "o", "m", "p", "o", "n", "e", "n", "t">>, <<"s", "e", "r", "v", "i", "c", "e">>,
   <<"c", "o", "n", "t", "r", "o", "l", "l", "e", "r">>, <<"m", "o", "d", "e", "l">>,
   <<"u", "t", "i", "l">>, <<"h", "e", "l", "p", "e", "r">>,
   <<"c", "o", "n", "f", "i", "g">>}
Extensions ==
  {<<"t", "s">>, <<"j", "s">>, <<"p", "y">>, <<"r", "s">>, <<"g", "o">>,
   <<"j", "s", "x">>, <<"t", "s", "x">>, <<"c", "p", "p">>, <<"c">>,
   <<"j", "a", "v", "a">>, <<"j", "s", "o", "n">>, <<"y", "m", "l">>,
   <<"y", "a", "m", "l">>}
ApiWords ==
  {<<"a", "p", "i">>, <<"e", "n", "d", "p", "o", "i", "n", "t">>,
   <<"r", "o", "u", "t", "e">>, <<"h", "a", "n", "d", "l", "e", "r">>,
   <<"m", "i", "d", "d", "l", "e", "w", "a", "r", "e">>}
TestWords ==
  {<<"t", "e", "s", "t">>, <<"s", "p", "e", "c">>, <<"m", "o", "c", "k">>,
   <<"f", "i", "x", "t", "u", "r", "e">>}

\* text.match(/\b(function|...)\s+(\w+)/gi), each match lower-cased and rid
\* of its non-word characters; toks is read from place i on
RECURSIVE MatchDecls(_, _)
MatchDecls(toks, i) ==
  IF i > Len(toks) THEN <<>>
  ELSE IF /\ i + 2 <= Len(toks)
          /\ toks[i].kind = "w" /\ toLowerCase(toks[i].text) \in DeclWords
          /\ toks[i + 1].kind = "s" /\ toks[i + 2].kind = "w"
       THEN <<toLowerCase(toks[i].text \o toks[i + 2].text)>> \o MatchDecls(toks, i + 3)
       ELSE MatchDecls(toks, i + 1)

\* The matches of a pattern /\b(w1|w2|...)\b/gi
MatchListed(toks, words) ==
  LET hit(t) == t.kind = "w" /\ toLowerCase(t.text) \in words
  IN [i \in 1..Len(SelectSeq(toks, hit)) |-> toLowerCase(SelectSeq(toks, hit)[i].text)]

\* The matches of /\.(ts|js|...)\b/gi without their full stop
RECURSIVE MatchExtensions(_, _)
MatchExtensions(toks, i) ==
  IF i >= Len(toks) THEN <<>>
  ELSE IF /\ toks[i].text = <<".">> /\ toks[i + 1].kind = "w"
          /\ toLowerCase(toks[i + 1].text) \in Extensions
       THEN <<toLowerCase(toks[i + 1].text)>> \o MatchExtensions(toks, i + 2)
       ELSE MatchExtensions(toks, i + 1)

\* _extractCodeKeywords: lines 357-376
extractCodeKeywords(text) ==
  LET toks == Tokenize(text.chars, <<>>)
      keywords == MatchDecls(toks, 1) \o MatchListed(toks, PartWords)
                  \o MatchExtensions(toks, 1) \o MatchListed(toks, ApiWords)
                  \o MatchListed(toks, TestWords)
  IN SelectSeq(Distinct(keywords), LAMBDA k : Len(k) > 2)

\* path.basename(fsPath)
BaseName(fsPath) ==
  LET slashes == {i \in 1..Len(fsPath) : fsPath[i] = "/"}
  IN IF slashes = {} THEN fsPath
     ELSE SubSeq(fsPath, (CHOOSE i \in slashes : \A j \in slashes : j <= i) + 1, Len(fsPath))

\* The names of lines 299-301
ImportantNames ==
  {<<"p", "a", "c", "k", "a", "g", "e", ".", "j", "s", "o", "n">>,
   <<"r", "e", "a", "d", "m", "e">>, <<"c", "o", "n", "f", "i", "g">>,
   <<"i", "n", "d", "e", "x">>, <<"m", "a", "i", "n">>, <<"a", "p", "p">>}

\* The score of one file: lines 279-303
ScoreFile(file, keywords, codeKeywords) ==
  LET fileName == toLowerCase(BaseName(file.fsPath))
      filePath == toLowerCase(file.fsPath)
      in(k) == Includes(fileName, k) \/ Includes(filePath, k)
  IN 10 * Cardinality({i \in 1..Len(keywords) : in(keywords[i])})
     + 15 * Cardinality({i \in 1..Len(codeKeywords) : in(codeKeywords[i])})
     + (IF \E n \in ImportantNames : Includes(fileName, n) THEN 5 ELSE 0)

\* A variant that takes the fallback foundFiles on top of the scoring ones.
TopFilesAlwaysFallback(foundFiles, userMsg) ==
  LET scored == [i \in 1..Len(foundFiles) |->
                   [uri |-> foundFiles[i],
                    score |-> ScoreFile(foundFiles[i], extractKeywords(userMsg),
                                        extractCodeKeywords(userMsg))]]
      sorted == SortByScore(SelectSeq(scored, LAMBDA f : f.score > 0))
  IN SubSeq(sorted, 1, IF Len(sorted) < 5 THEN Len(sorted) ELSE 5)
     \o [i \in 1..(IF Len(foundFiles) < 3 THEN Len(foundFiles) ELSE 3) |-> [uri |-> foundFiles[i], score |-> 1]]

\* scoredFiles, topFiles and the fallback: lines 276-319; foundFiles is files
TopFiles(foundFiles, userMsg) ==
  LET scored == [i \in 1..Len(foundFiles) |->
                   [uri |-> foundFiles[i],
                    score |-> ScoreFile(foundFiles[i], extractKeywords(userMsg),
                                        extractCodeKeywords(userMsg))]]
      sorted == SortByScore(SelectSeq(scored, LAMBDA f : f.score > 0))
      topFiles == SubSeq(sorted, 1, IF Len(sorted) < 5 THEN Len(sorted) ELSE 5)
  IN IF Len(topFiles) = 0
     THEN [i \in 1..(IF Len(foundFiles) < 3 THEN Len(foundFiles) ELSE 3) |-> [uri |-> foundFiles[i], score |-> 1]]
     ELSE topFiles

\* The files chosen, as lines 322-351 read them: by the lengths of the base
\* name and of the content
FilesRead(topFiles) ==
  [i \in 1..Len(topFiles) |->
     [name |-> Len(BaseName(topFiles[i].uri.fsPath)), content |-> topFiles[i].uri.content,
      readable |-> topFiles[i].uri.readable]]

\* _getCurrentFileContext: lines 378-399, the editor given as whether there is
\* one and the lengths of its file's base name and content
getCurrentFileContext(editor) ==
  IF ~editor.active THEN 0
  ELSE 26 + editor.name + 5 + (IF editor.content > 1500 THEN 1500 + 3 ELSE editor.content)

\* _buildChatPrompt: lines 136-183, the length of the prompt returned.
\* Math.floor(remainingLength * 0.6) is taken as the exact floor of six tenths.
buildChatPrompt(userMsg, history, workspace, editor) ==
  LET contextWindow0 == SystemPromptLength + 2
      remaining0 == ContextWindowSize - contextWindow0 - Length(userMsg) - 100
      codebaseContext ==
        getRelevantCodebaseContext(workspace.folders, workspace.found, workspace.topFiles,
                                   (remaining0 * 6) \div 10)
      contextWindow1 == IF codebaseContext # 0 THEN contextWindow0 + codebaseContext + 2
                        ELSE contextWindow0
      remaining1 == IF codebaseContext # 0 THEN remaining0 - codebaseContext ELSE remaining0
      currentFileContext == getCurrentFileContext(editor)
      included == currentFileContext # 0 /\ remaining1 > currentFileContext + 100
      contextWindow2 == IF included THEN contextWindow1 + currentFileContext + 2
                        ELSE contextWindow1
      remaining2 == IF included THEN remaining1 - currentFileContext ELSE remaining1
      relevantHistory == getRelevantContext(history, userMsg, remaining2)
  IN contextWindow2 + JoinedLength(relevantHistory) + 7 + Length(userMsg) + 6

(* ---------------------------- slash commands -------------------------- *)
\* command.split(' '); cur is the part being read
RECURSIVE Split(_, _)
Split(chars, cur) ==
  IF chars = <<>> THEN <<cur>>
  ELSE IF Head(chars) = " " THEN <<cur>> \o Split(Tail(chars), <<>>)
  ELSE Split(Tail(chars), Append(cur, Head(chars)))

\* parts.join(' ')
RECURSIVE Join(_)
Join(parts) ==
  IF parts = <<>> THEN <<>>
  ELSE IF Len(parts) = 1 THEN parts[1]
  ELSE parts[1] \o <<" ">> \o Join(Tail(parts))

ReadCmd == <<"/", "r", "e", "a", "d">>
WriteCmd == <<"/", "w", "r", "i", "t", "e">>
ExecCmd == <<"/", "e", "x", "e", "c">>
ListCmd == <<"/", "l", "i", "s", "t">>

\* The paths of the files the host knows by name
FilePaths ==
  [f \in {"foo.ts", "new.ts"} |->
     IF f = "foo.ts" THEN <<"f", "o", "o", ".", "t", "s">> ELSE <<"n", "e", "w", ".", "t", "s">>]

\* { command: 'appendMessage', role: 'assistant', content }: what is said, and about what
AppendMessage(what, about) ==
  [command |-> "appendMessage", content |-> <<what>>, fullContent |-> about]

\* `Read file: ${readPath}\n${content}`
ReadEntry(readPath, content) == [kind |-> "read", user |-> readPath, aica |-> content]

\* _handleCommand up to its first await: lines 67-134
HandleCommand(rec, command, workspaceFolders) ==
  LET parts == Split(command, <<>>)
      cmd == toLowerCase(parts[1])
      say(what, about) ==
        [rec EXCEPT !.posted = Append(@, AppendMessage(what, about)), !.pc = "done"]
  IN IF cmd = ReadCmd
     THEN (IF Len(parts) < 2 THEN say("Usage: /read <filepath>", <<>>)
           ELSE [rec EXCEPT !.pc = "cmdRead"])
     ELSE IF cmd = WriteCmd
     THEN (IF Len(parts) < 3 THEN say("Usage: /write <filepath> <content>", <<>>)
           ELSE [rec EXCEPT !.pc = "cmdWrite"])
     ELSE IF cmd = ExecCmd
     THEN (IF Len(parts) < 2 THEN say("Usage: /exec <command>", <<>>)
           ELSE [say("Executed", Join(Tail(parts))) EXCEPT
                   !.notices = Append(@, "terminal: sendText")])
     ELSE IF cmd = ListCmd
     THEN (IF ~workspaceFolders THEN say("No workspace open", <<>>)
           ELSE [rec EXCEPT !.pc = "cmdList"])
     ELSE say("Unknown command", cmd)

\* case 'sendMessage' with a text that starts with '/': lines 21-28
ReceiveCommand(e, text) ==
  /\ Quiet /\ NextFree(e)
  /\ StartsWith(text, <<"/">>)
  /\ h' = [h EXCEPT ![e] =
            HandleCommand([@ EXCEPT !.msg = [NoMsg EXCEPT !.command = "sendMessage",
                                                          !.text = text]],
                          text, workspaceOpen)]
  /\ UNCHANGED <<Globals, settled>>

\* A variant of /read that notes the file in the history even when it
\* could not be read.
ReadAnswerAlwaysPushes(e, ok) ==
  /\ Quiet /\ h[e].pc = "cmdRead"
  /\ LET readPath == Join(Tail(Split(h[e].msg.text, <<>>)))
         found == {f \in DOMAIN files \cap DOMAIN FilePaths : FilePaths[f] = readPath}
     IN /\ chatHistory' = Append(chatHistory, ReadEntry(readPath, <<>>))
        /\ appended' = Append(appended, ReadEntry(readPath, <<>>))
        /\ h' = [h EXCEPT ![e] = [@ EXCEPT
                  !.posted = Append(@, IF ok /\ found # {}
                                       THEN AppendMessage("Read", readPath)
                                       ELSE AppendMessage("Error reading", readPath)),
                  !.pc = "done"]]
  /\ UNCHANGED <<files, Config, settled, calc>>

\* /read: openTextDocument answers (ok) or throws: lines 77-87
ReadAnswer(e, ok) ==
  /\ Quiet /\ h[e].pc = "cmdRead"
  /\ LET readPath == Join(Tail(Split(h[e].msg.text, <<>>)))
         found == {f \in DOMAIN files \cap DOMAIN FilePaths : FilePaths[f] = readPath}
     IN IF ok /\ found # {}
        THEN LET content == files[CHOOSE f \in found : TRUE]
             IN /\ chatHistory' = Append(chatHistory, ReadEntry(readPath, content))
                /\ appended' = Append(appended, ReadEntry(readPath, content))
                /\ h' = [h EXCEPT ![e] = [@ EXCEPT
                          !.posted = Append(@, AppendMessage("Read", readPath)),
                          !.pc = "done"]]
        ELSE /\ h' = [h EXCEPT ![e] = [@ EXCEPT
                       !.posted = Append(@, AppendMessage("Error reading", readPath)),
                       !.pc = "done"]]
             /\ UNCHANGED <<chatHistory, appended>>
  /\ UNCHANGED <<files, Config, settled, calc>>

\* The text /write puts at the start of the file, as one more line
Written == "written"

\* /write: workspace.applyEdit answers or throws; its answer is not looked
\* at: lines 95-106
WriteAnswer(e, outcome) ==
  /\ Quiet /\ h[e].pc = "cmdWrite"
  /\ LET writePath == Split(h[e].msg.text, <<>>)[2]
         named == {f \in DOMAIN FilePaths : FilePaths[f] = writePath}
     IN /\ named = {} => outcome # "applied"
        /\ files' = IF outcome = "applied"
                    THEN LET f == CHOOSE n \in named : TRUE
                         IN [n \in DOMAIN files \cup {f} |->
                               IF n = f
                               THEN <<Written>> \o (IF f \in DOMAIN files THEN files[f] ELSE <<>>)
                               ELSE files[n]]
                    ELSE files
        /\ h' = [h EXCEPT ![e] = [@ EXCEPT
                  !.posted = Append(@, IF outcome = "thrown"
                                       THEN AppendMessage("Error writing to", writePath)
                                       ELSE AppendMessage("Successfully wrote to", writePath)),
                  !.pc = "done"]]
  /\ UNCHANGED <<chatHistory, Config, settled, appended, calc>>

\* /list: findFiles answers (ok) or throws, and nothing catches it: lines 121-128
ListAnswer(e, ok) ==
  /\ Quiet /\ h[e].pc = "cmdList"
  /\ h' = [h EXCEPT ![e] =
            IF ok THEN [@ EXCEPT !.posted = Append(@, AppendMessage("Files in workspace", <<>>)),
                                 !.pc = "done"]
            ELSE [@ EXCEPT !.pc = "unhandled"]]
  /\ UNCHANGED <<Globals, settled>>

\* index, the entry of aica.scanCodebase: the header and the summaries
IndexEntry(summaries) == [kind |-> "index", user |-> <<"Codebase Index:">>, aica |-> summaries]

\* The command aica.scanCodebase in an open workspace whose files the host
\* could open: the index is pushed and nothing is cut: lines 842-858
ScanCodebase ==
  /\ Quiet /\ workspaceOpen
  /\ chatHistory' = Append(chatHistory, IndexEntry(files["foo.ts"]))
  /\ appended' = Append(appended, IndexEntry(files["foo.ts"]))
  /\ UNCHANGED <<files, Config, h, settled, calc>>

(* --------------------------- function calls ---------------------------- *)
\* A call of one function: fn names it, args are its arguments, out its
\* result once returned is TRUE.
Call(fn, args) == [fn |-> fn, args |-> args, out |-> <<>>, returned |-> FALSE]
NoCalc == Call("none", <<>>)

Return(c, v) == [c EXCEPT !.out = v, !.returned = TRUE]

\* What a call of a function leaves alone
Unchanged == <<chatHistory, files, apiUrl, workspaceOpen, keepHistory, h, settled, appended>>

(* ------------------------- single-shot review -------------------------- *)
\* A JavaScript value by its type; v is the text of a string
JsString(v) == [type |-> "string", v |-> v]
JsNumber == [type |-> "number", v |-> <<>>]
Undefined == [type |-> "undefined", v |-> <<>>]

\* The body of a reply, response.data: null, or an object with or without a
\* member named response
NullBody == [isNull |-> TRUE, hasResponse |-> FALSE, response |-> Undefined]
BodyWithout == [isNull |-> FALSE, hasResponse |-> FALSE, response |-> Undefined]
BodyWith(value) == [isNull |-> FALSE, hasResponse |-> TRUE, response |-> value]

\* One run of the command aica.reviewFile or aica.reviewSelection.
\*   pc        "start", "posting" (getOllamaReview awaits axios.post), "done"
\*   editor    the active editor, if any, and whether its selection is empty
\*   review    what getOllamaReview returned
\*   requests  the addresses HTTP requests were issued to
\*   notices   the notifications raised
\*   shown     whether showReviewInWebview was called
ReviewCommand(fn, editor) ==
  [fn |-> fn, editor |-> editor, pc |-> "start", review |-> Undefined,
   requests |-> <<>>, notices |-> <<>>, shown |-> FALSE]

\* The command up to the await in getOllamaReview: lines 775-784 or 789-803,
\* and 878-895
ReviewStart ==
  /\ calc.fn \in {"reviewFile", "reviewSelection"} /\ calc.pc = "start"
  /\ calc' =
       IF ~calc.editor.active
       THEN [calc EXCEPT !.notices = Append(@, "error: No active editor!"), !.pc = "done"]
       ELSE IF calc.fn = "reviewSelection" /\ calc.editor.selectionEmpty
       THEN [calc EXCEPT !.notices = Append(@, "error: Select some code first!"),
                         !.pc = "done"]
       ELSE IF ~StartsWithHttp(apiUrl)
       THEN [calc EXCEPT !.notices = Append(@, "warning: Invalid apiUrl"),
                         !.review = JsString(InvalidUrlText),
                         !.shown = TRUE, !.pc = "done"]
       ELSE [calc EXCEPT !.requests = Append(@, apiUrl \o <<"/api/generate">>),
                         !.pc = "posting"]
  /\ UNCHANGED Unchanged

\* catch (error): lines 897-901
ReviewCatch(c) ==
  [c EXCEPT !.notices = Append(@, "error: Ollama error"),
            !.review = JsString(ConnectErrorText \o apiUrl),
            !.shown = TRUE, !.pc = "done"]

\* axios.post throws (server unreachable, non-2xx)
ReviewPostFails ==
  /\ calc.fn \in {"reviewFile", "reviewSelection"} /\ calc.pc = "posting"
  /\ calc' = ReviewCatch(calc)
  /\ UNCHANGED Unchanged

\* The address names a server: it has the scheme http: or https:
HasHttpScheme(url) ==
  StartsWith(url, <<"h", "t", "t", "p", ":">>) \/ StartsWith(url, <<"h", "t", "t", "p", "s", ":">>)

\* axios.post answers; return response.data.response (line 896): reading a
\* member of null throws inside the try, a missing member reads as undefined
ReviewPostOk(body) ==
  /\ calc.fn \in {"reviewFile", "reviewSelection"} /\ calc.pc = "posting"
  /\ HasHttpScheme(apiUrl)
  /\ calc' = IF body.isNull THEN ReviewCatch(calc)
              ELSE [calc EXCEPT !.review = body.response, !.shown = TRUE, !.pc = "done"]
  /\ UNCHANGED Unchanged

(* --------------------------- specifications ---------------------------- *)
\* The text the user sends in the e-th message
UserMsg(e) == <<"msg", e>>
ApiUrls == {LocalUrl, BareHost}

InitWith(urls, workspaces, keeps) ==
  /\ chatHistory = <<>>
  /\ files = [f \in {"foo.ts"} |-> OrigCode]
  /\ apiUrl \in urls
  /\ workspaceOpen \in workspaces
  /\ keepHistory \in keeps
  /\ h = [e \in Proc |-> InitH]
  /\ settled = <<>>
  /\ appended = <<>>
  /\ calc = NoCalc

\* All sequences over S of length 1..n
SeqsUpTo(S, n) == UNION {[1..k -> S] : k \in 1..n}

\* --- the chat view: MaxExch sendMessage exchanges
ChatChunks == {<<Obj(<<"S2", "S1">>, TRUE)>>, <<Obj(<<"ok">>, FALSE)>>}

Init == InitWith(ApiUrls, BOOLEAN, {FALSE})

Next ==
  \E e \in Proc :
    \/ ReceiveSendMessage(e, UserMsg(e))
    \/ ContextRead(e)
    \/ BuildPromptAndCall(e)
    \/ PostFails(e)
    \/ PostOk(e)
    \/ \E chunk \in ChatChunks : h[e].nLines < MaxChatData /\ OnData(e, chunk)
    \/ OnEnd(e)
    \/ OnError(e)
    \/ Resume(e)
    \/ SugLoop(e)
    \/ FindFiles(e)
    \/ \E ok \in BOOLEAN : OpenDocument(e, ok)
    \/ \E sync \in BOOLEAN : PressApply(e, sync)
    \/ \E sync \in BOOLEAN : PressCancel(e, sync)
    \/ Dismiss(e)
    \/ PreviewDecided(e)
    \/ \E outcome \in {"applied", "refused", "thrown"} : WriteEdit(e, outcome)

Spec == Init /\ [][Next]_vars

\* --- one streaming chat call, its stream drawn from a wider set of fragments
StreamFrags == {Bad, Null, Blank, Obj(Hel, FALSE), Obj(Lo, FALSE), Obj(Lo, TRUE), DoneOnly}

InitStream == InitWith(ApiUrls, {FALSE}, {FALSE})

NextStream ==
  \/ ReceiveSendMessage(1, UserMsg(1))
  \/ BuildPromptAndCall(1)
  \/ PostFails(1)
  \/ PostOk(1)
  \/ \E chunk \in SeqsUpTo(StreamFrags, MaxLines - h[1].nLines) : OnData(1, chunk)
  \/ OnEnd(1)
  \/ OnError(1)
  \/ Resume(1)
  \/ SugLoop(1)

SpecStream == InitStream /\ [][NextStream]_vars

\* --- the edit orchestrator asked directly: previewCodeChange and applyEdit messages
EditPaths == {"foo.ts", "gone.ts"}
EditDiffs == {<<Hunk(1), Minus("old1"), Plus("new1")>>, <<Minus("nope")>>, <<Plus("top")>>}

InitEdit == InitWith({LocalUrl}, {TRUE}, {FALSE})

NextEdit ==
  \E e \in Proc :
    \/ \E newCode \in {NewCodeA, NewCodeB}, filePath \in EditPaths :
         ReceivePreviewCodeChange(e, OrigCode, newCode, filePath)
    \/ \E diffText \in EditDiffs, filePath \in EditPaths :
         ReceiveApplyEdit(e, diffText, filePath)
    \/ EditOpen(e)
    \/ \E sync \in BOOLEAN : PressApply(e, sync)
    \/ \E sync \in BOOLEAN : PressCancel(e, sync)
    \/ Dismiss(e)
    \/ PreviewDecided(e)
    \/ \E outcome \in {"applied", "refused", "thrown"} : WriteEdit(e, outcome)

SpecEdit == InitEdit /\ [][NextEdit]_vars

\* --- a long conversation: exchanges one after the other, answered at once
\* (the address is not a URL), with files attached in between
MaxTurns == 15

InitHistory == InitWith({BareHost}, {FALSE}, BOOLEAN)

NextHistory ==
  \/ Len(appended) < MaxTurns /\ ReceiveSendMessage(1, UserMsg(Len(appended) + 1))
  \/ BuildPromptAndCall(1)
  \/ Resume(1)
  \/ SugLoop(1)
  \/ HandlerReturns(1)
  \/ Len(appended) < MaxTurns /\ h[1].pc \in {"idle", "done"} /\ AttachFile("foo.ts")

SpecHistory == InitHistory /\ [][NextHistory]_vars

\* --- one exchange whose response carries several suggestions
SugChunks == {<<Obj(<<"S1", "S2", "S1">>, TRUE)>>, <<Obj(<<"S2", "text", "S1">>, TRUE)>>,
              <<Obj(<<"text">>, TRUE)>>}

InitSuggest == InitWith({LocalUrl}, BOOLEAN, {FALSE})

NextSuggest ==
  \/ ReceiveSendMessage(1, UserMsg(1))
  \/ ContextRead(1)
  \/ BuildPromptAndCall(1)
  \/ PostOk(1)
  \/ \E chunk \in SugChunks : h[1].nLines < MaxChatData /\ OnData(1, chunk)
  \/ Resume(1)
  \/ SugLoop(1)
  \/ FindFiles(1)
  \/ \E ok \in BOOLEAN : OpenDocument(1, ok)
  \/ \E sync \in BOOLEAN : PressApply(1, sync)
  \/ \E sync \in BOOLEAN : PressCancel(1, sync)
  \/ Dismiss(1)
  \/ PreviewDecided(1)
  \/ \E outcome \in {"applied", "refused", "thrown"} : WriteEdit(1, outcome)

SpecSuggest == InitSuggest /\ [][NextSuggest]_vars

\* --- the diff engine: a patch is computed from one text to another and
\* applied to the first
MaxTextLen == 3
TextLines == {<<"a">>, <<"b">>, <<"c">>}

\* The texts of 1..MaxTextLen lines in which no line occurs twice
Texts ==
  {t \in SeqsUpTo(TextLines, MaxTextLen) : \A i, j \in 1..Len(t) : i # j => t[i] # t[j]}

InitFn(calls) ==
  /\ chatHistory = <<>>
  /\ files = [f \in {"foo.ts"} |-> OrigCode]
  /\ apiUrl = LocalUrl
  /\ workspaceOpen = FALSE
  /\ keepHistory = FALSE
  /\ h = [e \in Proc |-> InitH]
  /\ settled = <<>>
  /\ appended = <<>>
  /\ calc \in calls

InitDiff == InitFn({Call("roundTrip", [a |-> a, b |-> b]) : a \in Texts, b \in Texts})

\* showDiffPreview computes the patch of the two texts (line 1113)
ComputePatch ==
  /\ calc.fn = "roundTrip"
  /\ calc' = Call("apply", [a |-> calc.args.a, b |-> calc.args.b,
                             patch |-> createPatch("foo.ts", calc.args.a, calc.args.b)])
  /\ UNCHANGED Unchanged

\* applyDiffToContent is called with the first text and the patch (line 1008)
ApplyPatch ==
  /\ calc.fn = "apply" /\ ~calc.returned
  /\ calc' = Return(calc, applyDiffToContent(calc.args.a, ReadDiff(calc.args.patch)))
  /\ UNCHANGED Unchanged

NextDiff == ComputePatch \/ ApplyPatch

SpecDiff == InitDiff /\ [][NextDiff]_vars

\* --- keyword extraction from a message
MaxPieces == 3
Pieces == {<<"T", "h", "e">>, <<" ">>, <<"c", "a", "t">>, <<"D", "o", "g">>, <<"i", "s">>, <<"w", "i", "t", "h">>, <<"-">>,
           <<"x", "_", "1">>}

\* 'The cat and the Dog ran'
ExampleText ==
  <<"T", "h", "e", " ", "c", "a", "t", " ", "a", "n", "d", " ", "t", "h", "e", " ",
    "D", "o", "g", " ", "r", "a", "n">>

RECURSIVE Concat(_)
Concat(pieces) == IF pieces = <<>> THEN <<>> ELSE Head(pieces) \o Concat(Tail(pieces))

KeywordTexts ==
  {Str(<<>>, 0), Str(ExampleText, 0)}
  \cup {Str(Concat(ps), pad) : ps \in SeqsUpTo(Pieces, MaxPieces), pad \in {0, 2}}

InitKeywords == InitFn({Call("extractKeywords", t) : t \in KeywordTexts})

ExtractKeywords ==
  /\ calc.fn = "extractKeywords" /\ ~calc.returned
  /\ calc' = Return(calc, extractKeywords(calc.args))
  /\ UNCHANGED Unchanged

NextKeywords == ExtractKeywords

SpecKeywords == InitKeywords /\ [][NextKeywords]_vars

\* --- the history section of the prompt
MaxEntries == 2
HistoryEntries ==
  {<<Str(<<"a", "b">>, 0)>>,
   <<Str(<<"T", "h", "e", " ", "c", "a", "t">>, 0), Str(<<>>, 0)>>,
   <<Str(<<"b", "u", "g">>, 0)>>,
   <<Str(<<"/", "r", "e", "a", "d", " ", "f">>, 2)>>,
   <<Str(<<>>, 0), Str(<<"z", "z">>, 0)>>}
ContextMessages == {Str(<<"a", " ", "c", "a", "t">>, 0), Str(<<"i", "s", " ", "i", "t">>, 0)}
ContextBudgets == {-5, 0, 1, 3, 5, 8, 12, 40}

InitContext ==
  InitFn({Call("getRelevantContext", [history |-> hist, currentMsg |-> m, maxLength |-> n]) :
            hist \in {<<>>} \cup SeqsUpTo(HistoryEntries, MaxEntries),
            m \in ContextMessages, n \in ContextBudgets})

GetRelevantContext ==
  /\ calc.fn = "getRelevantContext" /\ ~calc.returned
  /\ calc' = Return(calc, getRelevantContext(calc.args.history, calc.args.currentMsg,
                                              calc.args.maxLength))
  /\ UNCHANGED Unchanged

NextContext == GetRelevantContext

SpecContext == InitContext /\ [][NextContext]_vars

\* --- the assembly of the prompt
SourceFile(name, content, readable) == [name |-> name, content |-> content, readable |-> readable]
Workspace(folders, found, topFiles) == [folders |-> folders, found |-> found, topFiles |-> topFiles]
Editor(active, name, content) == [active |-> active, name |-> name, content |-> content]

PromptMessages == {Str(<<"a", " ", "c", "a", "t">>, 0), Str(<<"f", "i", "x">>, 5000), Str(<<"f", "i", "x">>, 10900), Str(<<"f", "i", "x">>, 12100)}
PromptHistories ==
  {<<>>,
   << <<Str(<<"U", "s", "e", "r", ":", " ", "a", " ", "c", "a", "t">>, 0), Str(<<"A", "I", "C", "A", ":", " ", "o", "k">>, 40)>> >>,
   << <<Str(<<"r", "e", "a", "d", " ", "f", "i", "l", "e", ":", " ", "a">>, 6000)>>, <<Str(<<"U", "s", "e", "r", ":", " ", "b", "u", "g">>, 3000), Str(<<"A", "I", "C", "A", ":", " ", "x">>, 0)>> >>,
   << <<Str(<<"U", "s", "e", "r", ":", " ", "a">>, 7000)>>, <<Str(<<"A", "I", "C", "A", ":", " ", "b">>, 6000)>>, <<Str(<<"U", "s", "e", "r", ":", " ", "c">>, 100)>> >>}
PromptWorkspaces ==
  {Workspace(FALSE, TRUE, <<>>),
   Workspace(TRUE, FALSE, <<>>),
   Workspace(TRUE, TRUE, <<SourceFile(8, 300, TRUE), SourceFile(12, 5000, TRUE)>>),
   Workspace(TRUE, TRUE, <<SourceFile(8, 900, TRUE), SourceFile(9, 40, FALSE),
                           SourceFile(7, 2000, TRUE), SourceFile(12, 5000, TRUE),
                           SourceFile(6, 790, TRUE)>>)}
PromptEditors == {Editor(FALSE, 0, 0), Editor(TRUE, 12, 400), Editor(TRUE, 7, 9000)}

InitPrompt ==
  InitFn({Call("buildChatPrompt", [userMsg |-> m, history |-> hist, workspace |-> w,
                                   editor |-> ed]) :
            m \in PromptMessages, hist \in PromptHistories, w \in PromptWorkspaces,
            ed \in PromptEditors})

BuildChatPrompt ==
  /\ calc.fn = "buildChatPrompt" /\ ~calc.returned
  /\ calc' = Return(calc, buildChatPrompt(calc.args.userMsg, calc.args.history,
                                           calc.args.workspace, calc.args.editor))
  /\ UNCHANGED Unchanged

NextPrompt == BuildChatPrompt

SpecPrompt == InitPrompt /\ [][NextPrompt]_vars

\* --- the review commands
\* 'http://h:1', 'https://h', 'h:1', 'httpx', 'http:/h', 'ftp://h', the empty address
ReviewUrls ==
  {LocalUrl, <<"h", "t", "t", "p", "s", ":", "/", "/", "h">>, BareHost,
   <<"h", "t", "t", "p", "x">>, <<"h", "t", "t", "p", ":", "/", "h">>,
   <<"f", "t", "p", ":", "/", "/", "h">>, <<>>}
ReviewEditors ==
  {[active |-> FALSE, selectionEmpty |-> TRUE], [active |-> TRUE, selectionEmpty |-> TRUE],
   [active |-> TRUE, selectionEmpty |-> FALSE]}
ReviewBodies ==
  {NullBody, BodyWithout, BodyWith(JsNumber), BodyWith(JsString(<<>>)),
   BodyWith(JsString(<<"Looks fine.">>))}

InitReview ==
  /\ chatHistory = <<>>
  /\ files = [f \in {"foo.ts"} |-> OrigCode]
  /\ apiUrl \in ReviewUrls
  /\ workspaceOpen = FALSE
  /\ keepHistory = FALSE
  /\ h = [e \in Proc |-> InitH]
  /\ settled = <<>>
  /\ appended = <<>>
  /\ calc \in {ReviewCommand(fn, ed) : fn \in {"reviewFile", "reviewSelection"},
                                        ed \in ReviewEditors}

NextReview ==
  \/ ReviewStart
  \/ ReviewPostFails
  \/ \E body \in ReviewBodies : ReviewPostOk(body)

SpecReview == InitReview /\ [][NextReview]_vars

\* --- the suggestion pattern on a response
MaxBlocks == 3

\* '**SUGGESTED CHANGES FOR foo.ts:**', 'Fix typo', a ts fence with 'const x = 1;'
ExampleBlock ==
  <<Marker, "foo", ".", "ts", MarkerEnd, NL, "Fix", SP, "typo", NL,
    Fence, "ts", NL, "const", SP, "x", SP, "=", SP, "1", ";", NL, Fence, NL>>
\* the marker in lower case, blanks around the name, no rationale, no language
BareBlock ==
  <<MarkerLower, SP, "bar", ".", "ts", SP, MarkerEnd, SP, Fence, NL, SP, "x", NL, NL, Fence, NL>>
PlainText == <<"Fix", SP, "typo", ".", NL>>
\* a rationale of two lines: the pattern does not match
TwoLineBlock ==
  <<Marker, "foo", ".", "ts", MarkerEnd, NL, "Fix", NL, "typo", NL, Fence, "ts", NL, "x", NL, Fence, NL>>
\* a block that is not closed
OpenBlock == <<Marker, "foo", ".", "ts", MarkerEnd, SP, "Fix", NL, Fence, "ts", NL, "1", NL>>

Blocks == {ExampleBlock, BareBlock, PlainText, TwoLineBlock, OpenBlock}

InitParse == InitFn({Call("matchSuggestions", ps) : ps \in {<<>>} \cup SeqsUpTo(Blocks, MaxBlocks)})

ParseResponse ==
  /\ calc.fn = "matchSuggestions" /\ ~calc.returned
  /\ calc' = Return(calc, MatchSuggestions(Concat(calc.args), 0))
  /\ UNCHANGED Unchanged

NextParse == ParseResponse

SpecParse == InitParse /\ [][NextParse]_vars

\* --- a reset of the history while an exchange is under way
InitReset == InitWith({LocalUrl}, BOOLEAN, {FALSE})

NextReset ==
  \/ Len(appended) < 1 /\ AttachFile("foo.ts")
  \/ ReceiveSendMessage(1, UserMsg(1))
  \/ ContextRead(1)
  \/ BuildPromptAndCall(1)
  \/ PostFails(1)
  \/ PostOk(1)
  \/ \E chunk \in ChatChunks : h[1].nLines < MaxChatData /\ OnData(1, chunk)
  \/ OnEnd(1)
  \/ Resume(1)
  \/ SugLoop(1)
  \/ FindFiles(1)
  \/ \E ok \in BOOLEAN : OpenDocument(1, ok)
  \/ \E sync \in BOOLEAN : PressApply(1, sync)
  \/ Dismiss(1)
  \/ PreviewDecided(1)
  \/ \E outcome \in {"applied", "thrown"} : WriteEdit(1, outcome)
  \/ ClearHistory(2)

SpecReset == InitReset /\ [][NextReset]_vars

\* --- slash commands, with the other writers of the history beside them
MaxAppends == 2
CommandTexts ==
  {ReadCmd \o <<" ">> \o FilePaths["foo.ts"], ReadCmd,
   <<"/", "R", "e", "a", "d", " ">> \o FilePaths["foo.ts"],
   ReadCmd \o <<" ", " ">> \o FilePaths["foo.ts"], ReadCmd \o <<" ">> \o FilePaths["new.ts"],
   WriteCmd \o <<" ">> \o FilePaths["new.ts"] \o <<" ", "h", "i">>,
   WriteCmd \o <<" ">> \o FilePaths["foo.ts"] \o <<" ", "a", " ", "b">>,
   WriteCmd \o <<" ">> \o FilePaths["foo.ts"],
   ExecCmd \o <<" ", "l", "s">>, ExecCmd, ListCmd, <<"/", "f", "o", "o">>, <<"/">>,
   ReadCmd \o <<"x", " ">> \o FilePaths["foo.ts"]}

InitCommand == InitWith({LocalUrl}, BOOLEAN, {FALSE})

NextCommand ==
  \/ \E e \in Proc :
       \/ \E text \in CommandTexts : ReceiveCommand(e, text)
       \/ \E ok \in BOOLEAN : ReadAnswer(e, ok)
       \/ \E outcome \in {"applied", "refused", "thrown"} : WriteAnswer(e, outcome)
       \/ \E ok \in BOOLEAN : ListAnswer(e, ok)
  \/ Len(appended) < MaxAppends /\ ScanCodebase
  \/ Len(appended) < MaxAppends /\ AttachFile("foo.ts")

SpecCommand == InitCommand /\ [][NextCommand]_vars

\* --- applyDiffToContent, one line of the diff at a time
MaxDiffLines == 3
ContentLines == {<<"a">>, <<"b">>}
DiffTextLines ==
  {<<"-", "a">>, <<"-", "b">>, <<"-", "z">>, <<"+", "c">>, <<" ", "a">>,
   HunkHeader(2, 1, 2, 1), HunkHeader(0, 0, 1, 1), <<"@", "@", " ", "x">>}

\* A call of applyDiffToContent: st is [result, lineOffset], i the place in
\* diffLines of the line to read next
ApplyCall(originalContent, diffLines) ==
  [fn |-> "applyDiffToContent", args |-> [originalContent |-> originalContent,
                                          diffLines |-> diffLines],
   st |-> [result |-> originalContent, lineOffset |-> 0], i |-> 1,
   out |-> <<>>, returned |-> FALSE]

InitApply ==
  InitFn({ApplyCall(c, d) : c \in SeqsUpTo(ContentLines, MaxTextLen),
                            d \in SeqsUpTo(DiffTextLines, MaxDiffLines)})

\* One pass of the loop: lines 1035-1057
ApplyNextLine ==
  /\ calc.fn = "applyDiffToContent" /\ ~calc.returned
  /\ calc.i <= Len(calc.args.diffLines)
  /\ calc' = [calc EXCEPT
                !.st = ApplyDiffLine(@, ReadDiffLine(calc.args.diffLines[calc.i])),
                !.i = @ + 1]
  /\ UNCHANGED Unchanged

\* return result.join('\n'): line 1059
ApplyReturn ==
  /\ calc.fn = "applyDiffToContent" /\ ~calc.returned
  /\ calc.i > Len(calc.args.diffLines)
  /\ calc' = Return(calc, calc.st.result)
  /\ UNCHANGED Unchanged

NextApply == ApplyNextLine \/ ApplyReturn

SpecApply == InitApply /\ [][NextApply]_vars

\* --- the codebase section of the prompt: which files, and what is made of them
MaxListing == 3
FoundFile(fsPath, content, readable) ==
  [fsPath |-> fsPath, content |-> content, readable |-> readable]
Dir == <<"/", "w", "/">>
AppTs == FoundFile(Dir \o <<"a", "p", "p", ".", "t", "s">>, 300, TRUE)
CatTs == FoundFile(Dir \o <<"c", "a", "t", ".", "t", "s">>, 40, TRUE)
EmptyMd == FoundFile(Dir \o <<"x", ".", "m", "d">>, 0, TRUE)
NestedTs == FoundFile(Dir \o <<"c", "o", "n", "f", "i", "g", "/", "y", ".", "t", "s">>, 900, TRUE)
LockedTs == FoundFile(Dir \o <<"z", ".", "t", "s">>, 500, FALSE)
MainTs == FoundFile(Dir \o <<"M", "a", "i", "n", ".", "t", "s">>, 100, TRUE)
IndexTs == FoundFile(Dir \o <<"i", "n", "d", "e", "x", ".", "t", "s">>, 2000, TRUE)
ReadmeMd == FoundFile(Dir \o <<"R", "E", "A", "D", "M", "E", ".", "m", "d">>, 60, TRUE)
FoundFiles == {AppTs, CatTs, EmptyMd, NestedTs, LockedTs, MainTs}

\* What findFiles may return: no file, up to MaxListing different files in any
\* order, and two longer listings
Listings ==
  {<<>>}
  \cup {l \in SeqsUpTo(FoundFiles, MaxListing) : \A i, j \in 1..Len(l) : i # j => l[i] # l[j]}
  \cup {<<EmptyMd, AppTs, IndexTs, CatTs, MainTs, ReadmeMd, NestedTs, LockedTs>>,
        <<EmptyMd, LockedTs, CatTs, AppTs>>}
CodebaseMessages ==
  {Str(<<"a", " ", "c", "a", "t">>, 0), Str(<<"i", "s", " ", "i", "t">>, 0),
   Str(<<"f", "i", "x", " ", "C", "o", "n", "f", "i", "g">>, 0),
   Str(<<"c", "o", "n", "s", "t", " ", "y", " ", "i", "n", " ", "a", ".", "j", "s", "o", "n">>, 0)}
CodebaseBudgets == {50, 150, 400, 7000}

InitCodebase ==
  InitFn({Call("getRelevantCodebaseContext", [userMsg |-> m, files |-> l, maxLength |-> n]) :
            m \in CodebaseMessages, l \in Listings, n \in CodebaseBudgets})

\* _getRelevantCodebaseContext in an open workspace whose findFiles answers
\* with args.files: the files chosen and the length of the section
GetRelevantCodebaseContext ==
  /\ calc.fn = "getRelevantCodebaseContext" /\ ~calc.returned
  /\ LET topFiles == TopFiles(calc.args.files, calc.args.userMsg)
     IN calc' = Return(calc,
                       [topFiles |-> topFiles,
                        context |-> getRelevantCodebaseContext(TRUE, TRUE, FilesRead(topFiles),
                                                               calc.args.maxLength)])
  /\ UNCHANGED Unchanged

NextCodebase == GetRelevantCodebaseContext

SpecCodebase == InitCodebase /\ [][NextCodebase]_vars

(* ------------------------------ properties ----------------------------- *)
ContentBearing(f) == f.kind = "obj" /\ f.msg /\ f.content # <<>>
CarriesDone(f) == f.kind = "obj" /\ f.done
Malformed(f) == f.kind = "bad"

\* The streamingUpdate messages an invocation has posted, in order
Updates(r) == SelectSeq(r.posted, LAMBDA m : m.command = "streamingUpdate")

\* The message.content values of the fragments that decode, joined in order
RECURSIVE ConcatContents(_)
ConcatContents(frags) ==
  IF frags = <<>> THEN <<>>
  ELSE (IF ContentBearing(Head(frags)) THEN Head(frags).content ELSE <<>>)
       \o ConcatContents(Tail(frags))

NoDone(frags) == \A i \in 1..Len(frags) : ~CarriesDone(frags[i])

\* The received fragments up to and including the first one that carries done
UpToDone(frags) ==
  IF NoDone(frags) THEN frags
  ELSE SubSeq(frags, 1, SetMin({i \in 1..Len(frags) : CarriesDone(frags[i])}))

\* C1: a streaming chat call has exactly one terminal outcome, and every
\* streamingUpdate it posts is posted before that outcome: once the call has
\* resolved or rejected no further streamingUpdate follows, also when fragments
\* follow a fragment carrying done.
C1_UpdatesBeforeOutcome ==
  \A e \in Proc :
    /\ h[e].stream \in {"ended", "failed"} => h[e].promise.state # "pending"
    /\ h[e].promise.state # "pending" =>
         \A i \in 1..Len(h[e].posted) :
           h[e].posted[i].command = "streamingUpdate" => i <= h[e].promise.at

\* C7: the text the call resolves with is the concatenation, in arrival order,
\* of the message.content values of the decoded fragments, and one
\* streamingUpdate carrying the running concatenation is posted per
\* content-bearing fragment (Hel, then lo with done: Hello, two updates).
C7_ResolvesWithConcatenation ==
  \A e \in Proc :
    (h[e].stream = "ended" /\ h[e].promise.state = "resolved") =>
      /\ h[e].promise.value = ConcatContents(h[e].received)
      /\ Len(Updates(h[e])) = Len(SelectSeq(h[e].received, ContentBearing))
      /\ \A i \in 1..Len(Updates(h[e])) :
           Updates(h[e])[i].fullContent =
             ConcatContents(SubSeq(SelectSeq(h[e].received, ContentBearing), 1, i))

\* C8: a malformed fragment is skipped: it adds nothing to the accumulated
\* text, posts nothing, neither ends nor fails the call, and every well-formed
\* fragment before and after it is still decoded and accumulated.
C8_MalformedSkipped ==
  \A e \in Proc :
    h[e].stream # "none" =>
      /\ h[e].fullResponse = ConcatContents(h[e].received)
      /\ Len(Updates(h[e])) = Len(SelectSeq(h[e].received, ContentBearing))
      /\ h[e].promise.state = "rejected" => h[e].stream = "failed"
      /\ (h[e].promise.state = "resolved" /\ h[e].stream = "open") =>
           ~NoDone(h[e].received)

\* C8 witness: a malformed fragment between two content-bearing ones, both accumulated
C8_Witness ==
  \E e \in Proc :
    /\ Len(h[e].received) = 3
    /\ ContentBearing(h[e].received[1])
    /\ Malformed(h[e].received[2])
    /\ ContentBearing(h[e].received[3])
    /\ h[e].fullResponse = Hello
    /\ h[e].promise.state = "pending"

\* C9: when the stream ends and no fragment carried done, the call resolves
\* (it neither rejects nor stays pending) with the text accumulated so far.
C9_EndWithoutDoneResolves ==
  \A e \in Proc :
    (h[e].stream = "ended" /\ NoDone(h[e].received)) =>
      /\ h[e].promise.state = "resolved"
      /\ h[e].promise.value = h[e].fullResponse
      /\ h[e].promise.value = ConcatContents(h[e].received)
      /\ h[e].pc \in {"resume", "sugLoop", "done"}

\* C9 witness: the stream ended after Hel and lo, neither with done; the call gave Hello
C9_Witness ==
  \E e \in Proc :
    /\ h[e].stream = "ended"
    /\ NoDone(h[e].received)
    /\ h[e].received # <<>>
    /\ h[e].promise.state = "resolved"
    /\ h[e].promise.value = Hello

\* C10 as stated: whenever the stream emits error the call is rejected.
C10_ErrorAlwaysRejects ==
  \A e \in Proc : h[e].stream = "failed" => h[e].promise.state = "rejected"

\* C10 amended: an error event rejects the call unless a fragment carrying done
\* was decoded before it; then the call stays resolved with the text
\* accumulated up to that fragment.
C10_ErrorRejectsUnlessDone ==
  \A e \in Proc :
    h[e].stream = "failed" =>
      IF NoDone(h[e].received)
      THEN h[e].promise.state = "rejected" /\ h[e].pc \in {"resume", "unhandled"}
      ELSE /\ h[e].promise.state = "resolved"
           /\ h[e].promise.value = ConcatContents(UpToDone(h[e].received))

\* C10 witness: an error in mid-stream, after content and before any done
C10_Witness ==
  \E e \in Proc :
    /\ h[e].stream = "failed"
    /\ h[e].fullResponse = Hel
    /\ NoDone(h[e].received)
    /\ h[e].promise.state = "rejected"

\* C2: at most one streaming chat call is outstanding at any moment.
C2_OneCallOutstanding ==
  Cardinality({e \in Proc : h[e].pc \in {"posting", "awaitChat"}}) <= 1

HasTurn(e) == \E i \in 1..Len(chatHistory) : chatHistory[i].user = UserMsg(e)
TurnIndex(e) == SetMin({i \in 1..Len(chatHistory) : chatHistory[i].user = UserMsg(e)})
SettledIndex(e) == SetMin({i \in 1..Len(settled) : settled[i] = e})

\* C3: turns are appended in the order in which their chat calls complete: of
\* two exchanges, the one whose call completed first has the earlier turn.
C3_TurnsInCompletionOrder ==
  \A a, b \in Proc :
    (HasTurn(a) /\ HasTurn(b) /\ SettledIndex(a) < SettledIndex(b)) =>
      TurnIndex(a) < TurnIndex(b)

\* C6: a transport failure during a chat exchange never leaves the sendMessage
\* handler as an unhandled failure, and ends in a user-visible message.
C6_FailureHandled ==
  \A e \in Proc :
    /\ h[e].pc # "unhandled"
    /\ (h[e].promise.state = "rejected" /\ h[e].pc # "resume") => h[e].notices # <<>>

\* C4: when the approval prompt is answered with cancel, or the panel is
\* dismissed without a decision, no write is performed: no step of an
\* invocation whose prompt ended that way changes any file, and when it has
\* returned (no other invocation having run) every file holds what it held
\* before.
C4_CancelWritesNothing ==
  /\ [](\A e \in Proc :
          (/\ h[e].pressed \in {"cancel", "dismiss"} /\ h[e].pc = "done"
           /\ \A p \in Proc : p # e => h[p].pc = "idle")
          => files = [f \in {"foo.ts"} |-> OrigCode])
  /\ [][\A e \in Proc :
          (h[e].pressed \in {"cancel", "dismiss"} /\ h'[e] # h[e]) => files' = files]_vars

\* C4 witness: a side-by-side preview cancelled and a diff preview dismissed,
\* both returned, the file still holding its original content
C4_Witness ==
  \E a, b \in Proc :
    /\ h[a].pc = "done" /\ h[a].pressed = "cancel" /\ h[a].pv.kind = "sideBySide"
    /\ h[b].pc = "done" /\ h[b].pressed = "dismiss" /\ h[b].pv.kind = "diff"
    /\ h[a].pv.filePath = "foo.ts" /\ h[b].pv.filePath = "foo.ts"
    /\ h[a].pv.modified # OrigCode /\ h[b].pv.modified # OrigCode
    /\ files["foo.ts"] = OrigCode

\* C5: when the user approves an edit the file's whole content is replaced by
\* the proposed content (after the approval the file holds exactly the
\* proposed content), and the file never holds anything but the full original
\* or a full proposed content.
C5_ApprovedIsWritten ==
  /\ \A e \in Proc :
       (/\ h[e].pressed = "apply" /\ h[e].pc = "done"
        /\ h[e].wrote \in {"none", "applied"}
        /\ h[e].pv.filePath \in DOMAIN files
        /\ \A p \in Proc : p # e => h[p].pc = "idle")
       => files[h[e].pv.filePath] = h[e].pv.modified
  /\ \A f \in DOMAIN files :
       \/ files[f] = OrigCode
       \/ \E e \in Proc : h[e].pv.filePath = f /\ files[f] = h[e].pv.modified

\* C11: with retention off, when a chat exchange completes the history holds
\* exactly the last min(n, 10) of the n entries appended so far, in the order
\* they were appended.
C11_LastTenInOrder ==
  [][\A e \in Proc :
       (h[e].pc = "sugLoop" /\ h'[e].pc = "done" /\ ~keepHistory) =>
         /\ Len(chatHistory') = (IF Len(appended') < 10 THEN Len(appended') ELSE 10)
         /\ \A i \in 1..Len(chatHistory') :
              chatHistory'[i] = appended'[Len(appended') - Len(chatHistory') + i]]_vars

\* C11 witness: fifteen turns were pushed and the history is the sixth to the fifteenth
C11_Witness ==
  /\ ~keepHistory /\ h[1].pc = "done"
  /\ Len(appended) = 15
  /\ \A i \in 1..15 : appended[i].kind = "turn" /\ appended[i].user = UserMsg(i)
  /\ Len(chatHistory) = 10
  /\ \A i \in 1..10 : chatHistory[i].user = UserMsg(i + 5)

\* The suggestions of the log, one entry per suggestion handled (its being
\* shown or its being skipped), in order
Handled(log) == SelectSeq(log, LAMBDA x : x.ev \in {"shown", "skipped"})

\* C12: the suggestions of one response are handled one after another in order
\* of occurrence: a prompt is only shown when the one before has returned (its
\* decision and write finished); a suggestion whose preparation fails is
\* skipped and the later ones are still handled, each one whose target exists
\* being shown unless its own preparation fails.
C12_SequentialAndSkipping ==
  \A e \in Proc :
    LET log == h[e].log
        all == ParseSuggestions(h[e].response)
    IN /\ \A i \in 1..Len(log) :
            /\ log[i].ev = "shown" =>
                 (i < Len(log) => log[i + 1].ev = "returned" /\ log[i + 1].file = log[i].file)
            /\ log[i].ev = "returned" => i > 1 /\ log[i - 1].ev = "shown"
            /\ log[i].ev = "skipped" =>
                 \/ ~workspaceOpen
                 \/ log[i].file \notin DOMAIN files
                 \/ log[i].why = "read error"
       /\ Len(Handled(log)) <= Len(all)
       /\ \A i \in 1..Len(Handled(log)) : Handled(log)[i].file = all[i].filename
       /\ h[e].pc = "done" =>
            /\ Len(Handled(log)) = Len(all)
            /\ log # <<>> => log[Len(log)].ev # "shown"

\* C12 witness: the first suggestion was shown and returned, the second one's
\* target is missing and it was skipped, the third was shown after it
C12_Witness ==
  /\ h[1].pc = "done"
  /\ Len(h[1].log) = 5
  /\ h[1].log[1].ev = "shown" /\ h[1].log[1].file = "foo.ts"
  /\ h[1].log[2].ev = "returned"
  /\ h[1].log[3].ev = "skipped" /\ h[1].log[3].file = "gone.ts"
  /\ h[1].log[4].ev = "shown" /\ h[1].log[4].file = "foo.ts"
  /\ h[1].log[5].ev = "returned"

\* C13: for texts a and b without a duplicated line, applying to a the patch
\* createPatch computes from a to b gives exactly b.
C13_RoundTrip ==
  (calc.fn = "apply" /\ calc.returned) => calc.out = calc.args.b

\* C18: the keywords of a text are a duplicate-free list of tokens of at least
\* three characters, none in upper case, each occurring in the lower-cased
\* text, and no word of the stop list is among them; the empty text gives the
\* empty list and 'The cat and the Dog ran' gives cat, dog, ran.
C18_KeywordsClean ==
  (calc.fn = "extractKeywords" /\ calc.returned) =>
    LET out == calc.out
    IN /\ \A i, j \in 1..Len(out) : i # j => out[i] # out[j]
       /\ \A i \in 1..Len(out) :
            /\ Len(out[i]) >= 3
            /\ \A k \in 1..Len(out[i]) :
                 IsWordChar(out[i][k]) /\ ToLowerChar(out[i][k]) = out[i][k]
            /\ Includes(toLowerCase(calc.args.chars), out[i])
            /\ \A k \in 1..Len(StopWords) : StopWords[k] # out[i]
       /\ calc.args.chars = <<>> => out = <<>>
       /\ calc.args.chars = ExampleText =>
            {out[i] : i \in 1..Len(out)} = {<<"c", "a", "t">>, <<"d", "o", "g">>, <<"r", "a", "n">>}

\* C18 witness: the example text has been processed and gave three keywords
C18_Witness ==
  /\ calc.fn = "extractKeywords" /\ calc.returned
  /\ calc.args.chars = ExampleText
  /\ Len(calc.out) = 3

\* The lines of a call's history in descending score order, lines of equal
\* score in their original order: line i comes at place 1 + the number of
\* lines that score more, or as much and stand before it
RankedLines(lines, currentMsg) ==
  LET n == Len(lines)
      sc(i) == scoreLineRelevance(lines[i], extractKeywords(currentMsg), i - 1, n)
      place(i) == 1 + Cardinality({j \in 1..n : sc(j) > sc(i) \/ (sc(j) = sc(i) /\ j < i)})
  IN [p \in 1..n |-> lines[CHOOSE i \in 1..n : place(i) = p]]

\* sub can be had from seq by leaving elements out
RECURSIVE IsSubsequence(_, _)
IsSubsequence(sub, seq) ==
  IF sub = <<>> THEN TRUE
  ELSE IF seq = <<>> THEN FALSE
  ELSE IF Head(sub) = Head(seq) THEN IsSubsequence(Tail(sub), Tail(seq))
  ELSE IsSubsequence(sub, Tail(seq))

C20_VerbatimOrRanked ==
  LET lines == Flatten(calc.args.history)
  IN IF JoinedLength(lines) <= calc.args.maxLength
     THEN calc.out = lines
     ELSE IsSubsequence(calc.out, RankedLines(lines, calc.args.currentMsg))

\* C20 as stated: the history section is the whole history when that fits the
\* budget, else lines in descending score order (equal scores in original
\* order), and its length never exceeds the budget, whatever the budget, zero
\* and negative ones included.
C20_WithinAnyBudget ==
  (calc.fn = "getRelevantContext" /\ calc.returned) =>
    /\ C20_VerbatimOrRanked
    /\ JoinedLength(calc.out) <= calc.args.maxLength

\* C20 amended: as above, the length never exceeding the budget when the
\* budget is zero or more; under a zero or negative budget the section is empty.
C20_WithinBudgetOrEmpty ==
  (calc.fn = "getRelevantContext" /\ calc.returned) =>
    /\ C20_VerbatimOrRanked
    /\ calc.args.maxLength >= 0 => JoinedLength(calc.out) <= calc.args.maxLength
    /\ calc.args.maxLength <= 0 => calc.out = <<>>

\* C20 witness: the history did not fit and two lines were chosen, the later
\* one of the history first
C20_Witness ==
  /\ calc.fn = "getRelevantContext" /\ calc.returned
  /\ JoinedLength(Flatten(calc.args.history)) > calc.args.maxLength
  /\ Len(calc.out) = 2
  /\ \E i, j \in 1..Len(Flatten(calc.args.history)) :
       /\ i < j
       /\ Flatten(calc.args.history)[j] = calc.out[1]
       /\ Flatten(calc.args.history)[i] = calc.out[2]
       /\ calc.out[1] # calc.out[2]

\* C14: the prompt is never longer than the window of 12000 characters plus
\* the fixed preamble (the system prompt with its blank line and the
\* 'User:' / 'AICA:' frame) plus one truncation marker of three characters,
\* whatever the message, the history, the workspace and the active file.
C14_PromptBounded ==
  (calc.fn = "buildChatPrompt" /\ calc.returned) =>
    calc.out <= 12000 + (883 + 2 + 7 + 6) + 3

\* The address is http:// or https:// followed by a host
WellFormedUrl(url) ==
  \/ StartsWith(url, <<"h", "t", "t", "p", ":", "/", "/">>) /\ Len(url) > 7
  \/ StartsWith(url, <<"h", "t", "t", "p", "s", ":", "/", "/">>) /\ Len(url) > 8

\* getOllamaReview has been entered by the command
ReviewEntered == calc.fn \in {"reviewFile", "reviewSelection"} /\
                 (calc.pc = "posting" \/ calc.shown)

\* C15: an address that is not a well-formed http:// or https:// URL is found
\* out before any network attempt: no HTTP request is issued and the review
\* returns the 'Invalid Ollama URL.' text; with a well-formed address the
\* request is attempted.
C15_InvalidEndpointFirst ==
  ReviewEntered =>
    IF WellFormedUrl(apiUrl)
    THEN calc.requests # <<>>
    ELSE calc.requests = <<>> /\ calc.review = JsString(InvalidUrlText)

\* C16: whatever the outcome of the request, the review returns a string.
C16_ReviewIsString ==
  (calc.fn \in {"reviewFile", "reviewSelection"} /\ calc.shown) =>
    calc.review.type = "string"

\* The suggestions a response made of whole blocks must give: one per block
\* that is an occurrence of the pattern, in order
RECURSIVE ExpectedSuggestions(_)
ExpectedSuggestions(blocks) ==
  IF blocks = <<>> THEN <<>>
  ELSE (IF Head(blocks) = ExampleBlock
        THEN << <<(<<"foo", ".", "ts">>), <<"Fix", SP, "typo">>,
                  <<"const", SP, "x", SP, "=", SP, "1", ";">> >> >>
        ELSE IF Head(blocks) = BareBlock
        THEN << <<(<<"bar", ".", "ts">>), <<>>, <<"x">> >> >>
        ELSE <<>>)
       \o ExpectedSuggestions(Tail(blocks))

C19_RemoveFirstOrSkip ==
  /\ [](calc.fn = "applyDiffToContent" =>
          (calc.returned => calc.i = Len(calc.args.diffLines) + 1))
  /\ [][(calc.fn = "applyDiffToContent" /\ ~calc.returned /\
          calc.i <= Len(calc.args.diffLines)) =>
         LET line == calc.args.diffLines[calc.i]
             res == calc.st.result
             hits == {k \in 1..Len(res) :
                        k - 1 >= calc.st.lineOffset /\ res[k] = Tail(line)}
         IN /\ calc'.i = calc.i + 1 /\ ~calc'.returned
            /\ Head(line) = "-" =>
                 /\ calc'.st.lineOffset = calc.st.lineOffset
                 /\ IF hits = {} THEN calc'.st.result = res
                    ELSE \E m \in hits :
                           /\ \A k \in hits : m <= k
                           /\ Len(calc'.st.result) = Len(res) - 1
                           /\ \A k \in 1..Len(res) - 1 :
                                calc'.st.result[k] = IF k < m THEN res[k] ELSE res[k + 1]]_vars

\* C19 witness: the first line of the diff asked to remove a line the content
\* does not hold, the second one's addition was still made
C19_Witness ==
  /\ calc.fn = "applyDiffToContent" /\ calc.returned
  /\ calc.args.originalContent = << <<"a">>, <<"b">> >>
  /\ calc.args.diffLines = << <<"-", "z">>, <<"+", "c">> >>
  /\ calc.out = << <<"c">>, <<"a">>, <<"b">> >>

\* The string made by adding the lines one after another as line 212 does
RECURSIVE JoinLines(_, _)
JoinLines(lines, result) ==
  IF lines = <<>> THEN result ELSE JoinLines(Tail(lines), AddLine(result, Head(lines)))

\* C21: when the history exceeds the budget the section is made of a prefix
\* of the score-sorted lines: once a line is left out because it does not
\* fit, no lower-scoring line is included after it.
C21_PrefixOfRanked ==
  (/\ calc.fn = "getRelevantContext" /\ calc.returned
   /\ JoinedLength(Flatten(calc.args.history)) > calc.args.maxLength) =>
    LET ranked == RankedLines(Flatten(calc.args.history), calc.args.currentMsg)
    IN \E k \in 0..Len(ranked) : calc.out = JoinLines(SubSeq(ranked, 1, k), <<>>)

\* The files of a call that score above zero, best first, equal scores in
\* the order of the enumeration
RankedFiles(foundFiles, userMsg) ==
  LET n == Len(foundFiles)
      sc(i) == ScoreFile(foundFiles[i], extractKeywords(userMsg), extractCodeKeywords(userMsg))
      pos == {i \in 1..n : sc(i) > 0}
      place(i) == 1 + Cardinality({j \in pos : sc(j) > sc(i) \/ (sc(j) = sc(i) /\ j < i)})
  IN [p \in 1..Cardinality(pos) |-> foundFiles[CHOOSE i \in pos : place(i) = p]]

\* The choice of the files: the five best of those scoring above zero, or
\* the first three of the enumeration when none scores
C22_Selection ==
  (calc.fn = "getRelevantCodebaseContext" /\ calc.returned) =>
    LET ranked == RankedFiles(calc.args.files, calc.args.userMsg)
        chosen == [i \in 1..Len(calc.out.topFiles) |-> calc.out.topFiles[i].uri]
    IN IF ranked # <<>>
       THEN chosen = SubSeq(ranked, 1, IF Len(ranked) < 5 THEN Len(ranked) ELSE 5)
       ELSE chosen = SubSeq(calc.args.files, 1,
                            IF Len(calc.args.files) < 3 THEN Len(calc.args.files) ELSE 3)

\* C22: files scoring zero are excluded, at most the five highest-scoring
\* files are taken (ties in enumeration order), the first three enumerated
\* files are used when every file scores zero, and so the codebase section
\* is non-empty whenever the enumeration returns at least one file.
C22_FilesGiveSection ==
  /\ C22_Selection
  /\ (/\ calc.fn = "getRelevantCodebaseContext" /\ calc.returned
      /\ calc.args.maxLength >= 100
      /\ calc.args.files # <<>>) => calc.out.context > 0

\* C23: an approval prompt delivers one decision, and it is true exactly when
\* the user pressed apply: the dispose handler that fires when apply disposes
\* the panel does not turn the decision into false; cancel and dismissal
\* deliver false.
C23_DecisionIsApply ==
  \A e \in DOMAIN h :
    h[e].pressed # "none" =>
      /\ h[e].decision.state = "resolved"
      /\ h[e].decision.value <=> (h[e].pressed = "apply")

\* C24: every startStreaming posted to the chat view is followed by a
\* streamingComplete, whichever way the chat call ends: once the handler has
\* ended and the stream, if one was opened, is closed, nothing more is posted,
\* and by then a streamingComplete stands after each startStreaming.
C24_StartIsCompleted ==
  \A e \in DOMAIN h :
    (h[e].pc \in {"done", "unhandled"} /\ h[e].stream # "open") =>
      \A i \in 1..Len(h[e].posted) :
        h[e].posted[i] = StartStreaming =>
          \E j \in (i + 1)..Len(h[e].posted) : h[e].posted[j] = StreamingComplete

\* C25: a reset is not undone by an exchange in flight: when clearHistory
\* was handled while an exchange was awaiting the model or an approval prompt
\* and that exchange has finished, its turn is not in the history.
C25_ResetIsKept ==
  \A c, e \in Proc :
    (/\ h[c].msg.command = "clearHistory" /\ h[c].pc = "done"
     /\ e \in h[c].log[1].why
     /\ h[e].pc = "done") =>
      \A i \in 1..Len(chatHistory) : chatHistory[i] # Turn(h[e].msg.text, h[e].response)

\* C26: with history retention disabled the history holds at most ten
\* entries once an operation that appends to it (chat exchange, attach file,
\* /read, scan codebase) has finished, for every sequence of such operations.
C26_AtMostTen ==
  (~keepHistory /\ \A e \in Proc : h[e].pc \in {"idle", "done"}) =>
    Len(chatHistory) <= HistoryLimit

\* The invocation handles a message that starts with '/'
IsCommand(rec) == rec.msg.command = "sendMessage" /\ StartsWith(rec.msg.text, <<"/">>)

\* The invocation has just said that it read a file
SaidRead(before, after) ==
  /\ Len(after.posted) = Len(before.posted) + 1
  /\ after.posted[Len(after.posted)].content = <<"Read">>

\* C27: a message starting with '/' is handled as a local command only: it
\* posts no startStreaming, builds no prompt, opens no stream and appends no
\* User/AICA turn; a step of a command leaves the history as it is, except
\* the step of a successful /read, which appends exactly one entry.
C27_CommandsAreLocal ==
  /\ [](\A e \in Proc :
          IsCommand(h[e]) =>
            /\ \A i \in 1..Len(h[e].posted) : h[e].posted[i].command = "appendMessage"
            /\ h[e].prompt = <<>> /\ h[e].stream = "none" /\ h[e].promise = Pending
            /\ \A i \in 1..Len(chatHistory) : chatHistory[i].kind # "turn")
  /\ [][\A e \in Proc :
          (IsCommand(h'[e]) /\ h'[e] # h[e]) =>
            IF SaidRead(h[e], h'[e])
            THEN /\ Len(chatHistory') = Len(chatHistory) + 1
                 /\ SubSeq(chatHistory', 1, Len(chatHistory)) = chatHistory
                 /\ chatHistory'[Len(chatHistory')].kind = "read"
            ELSE chatHistory' = chatHistory]_vars

\* C27 witness: a /read has put its one entry in the history, a /write that
\* went through has added nothing
C27_Witness ==
  /\ IsCommand(h[1]) /\ h[1].pc = "done"
  /\ toLowerCase(Split(h[1].msg.text, <<>>)[1]) = ReadCmd
  /\ h[1].posted = <<AppendMessage("Read", FilePaths["foo.ts"])>>
  /\ IsCommand(h[2]) /\ h[2].pc = "done"
  /\ h[2].posted = <<AppendMessage("Successfully wrote to", FilePaths["new.ts"])>>
  /\ "new.ts" \in DOMAIN files
  /\ chatHistory = <<ReadEntry(FilePaths["foo.ts"], OrigCode)>>

====
